---- MODULE Spec2Model ----
(***************************************************************************)
(* A model of the gap/channel router (gcr/ and src/ of the repository).    *)
(*                                                                         *)
(* Decimal quantities are integers here.  The only division of the         *)
(* geometric kernel is the "/ 2" of OverlappedIntervalDict.upper_space and *)
(* lower_space, taken when the OID has more than one ShieldDict; the nets  *)
(* of such groups are drawn so that this division is exact, as Decimal's   *)
(* is.                                                                     *)
(* A name is a sequence of tokens: <<group, k>> is net k of a group and    *)
(* Append(name, i) is the child "{name}_c{i}" of a width-split net.        *)
(***************************************************************************)
EXTENDS Integers, Sequences, FiniteSets, TLC

(***************************************************************************)
(* Arithmetic and sequence helpers (Python built-ins max, min, sum, abs).  *)
(***************************************************************************)
Max(a, b) == IF a >= b THEN a ELSE b

Min(a, b) == IF a <= b THEN a ELSE b

Abs(a) == IF a >= 0 THEN a ELSE 0 - a

RECURSIVE SeqSum(_)
SeqSum(s) == IF s = <<>> THEN 0 ELSE Head(s) + SeqSum(Tail(s))

RECURSIVE SeqMax(_)
SeqMax(s) == IF Len(s) = 1 THEN s[1] ELSE Max(Head(s), SeqMax(Tail(s)))

RECURSIVE SeqMin(_)
SeqMin(s) == IF Len(s) = 1 THEN s[1] ELSE Min(Head(s), SeqMin(Tail(s)))

RECURSIVE Flatten(_)
Flatten(ss) == IF ss = <<>> THEN <<>> ELSE Head(ss) \o Flatten(Tail(ss))

Range(s) == {s[i] : i \in DOMAIN s}

Last(s) == s[Len(s)]

\* get_offset / get_ceiling_space return None; a ceiling of None is area.width
None == -1

\* Decimal(float("-inf")), the sweep cursor before anything is placed
MinusInf == -1

\* Net.__init__ widens a zero-length trunk by 0.0000001: the smallest step of x
Epsilon == 1

(***************************************************************************)
(* intervaltree.Interval: half-open [begin, end).                          *)
(***************************************************************************)
overlaps(b1, e1, b2, e2) == b1 < e2 /\ e1 > b2

contains_point(b, e, p) == b <= p /\ p < e

overlap_size(b1, e1, b2, e2) ==
    IF overlaps(b1, e1, b2, e2) THEN Min(e1, e2) - Max(b1, b2) ELSE 0

(***************************************************************************)
(* Entities.  Every allocatable is a record of the same shape:             *)
(*   kind, name, xb, xe (x_interval), w (width), us, ls (upper and lower   *)
(*   space), st (shield type), pins (sequence of <<x, y>>), elems (the     *)
(*   elements of a ShieldedNetList stored as one unit, else empty); a      *)
(*   Blockage has its absolute y_min and y_max as well.                    *)
(***************************************************************************)
is_none(st) == st = ""

is_group_shield(st) == st \in {"G", "GS"}

Net(name, width, space, pins, shield_type) ==
    LET xs == [i \in DOMAIN pins |-> pins[i][1]]
        x_min == SeqMin(xs)
        x_max == SeqMax(xs)
    IN  [kind |-> "Net", name |-> name,
         xb |-> x_min,
         xe |-> IF x_min = x_max THEN x_max + Epsilon ELSE x_max,
         w |-> width, us |-> space, ls |-> space,
         st |-> shield_type, pins |-> pins, elems |-> <<>>]

Shield(name, type, x_min, x_max, width, space) ==
    [kind |-> "Shield", name |-> name, xb |-> x_min, xe |-> x_max,
     w |-> width, us |-> space, ls |-> space,
     st |-> type, pins |-> <<>>, elems |-> <<>>]

Blockage(x_min, x_max, y_min, y_max) ==
    [kind |-> "Blockage", name |-> <<"Blockage">>, xb |-> x_min, xe |-> x_max,
     w |-> y_max - y_min, us |-> 0, ls |-> 0,
     st |-> "", pins |-> <<>>, elems |-> <<>>, y_min |-> y_min, y_max |-> y_max]

group_name(n) == n.name[1]

require_shield(n) == ~is_none(n.st)

Allocation(data, offset) == [data |-> data, offset |-> offset]

y_min(a) == a.offset

y_max(a) == a.offset + a.data.w

y_max_with_space(a) == a.offset + a.data.w + a.data.us

\* WireAllocatables.vertical_wirelength over a list of pins
vertical_wirelength(pins, y) == SeqSum([i \in DOMAIN pins |-> Abs(pins[i][2] - y)])

(***************************************************************************)
(* Containers.                                                             *)
(***************************************************************************)
total_width(nl) ==
    SeqSum([i \in DOMAIN nl |-> nl[i].w])
    + SeqSum([i \in 1..(Len(nl) - 1) |-> Max(nl[i].us, nl[i + 1].ls)])

\* netlist[i - 1] with Python's wrap-around at i = 0 (1-based here)
Prev(netlist, i) == IF i = 1 THEN netlist[Len(netlist)] ELSE netlist[i - 1]

\* a variant of build_netlist_with_shield that leaves the top of the stack open
build_netlist_with_shield_open(netlist, shield_width) ==
    LET gname == <<group_name(netlist[1]) \o "-shield">>
        pre(i) ==
            Shield(gname, netlist[1].st,
                   Max(Prev(netlist, i).xb, netlist[i].xb),
                   Max(Prev(netlist, i).xe, netlist[i].xe),
                   shield_width,
                   IF i = 1 THEN netlist[1].ls
                   ELSE Max(netlist[i - 1].us, netlist[i].ls))
    IN  Flatten([i \in DOMAIN netlist |-> <<pre(i), netlist[i]>>])

build_netlist_with_shield(netlist, shield_width) ==
    LET gname == <<group_name(netlist[1]) \o "-shield">>
        type == netlist[1].st
        pre(i) ==
            Shield(gname, type,
                   Max(Prev(netlist, i).xb, netlist[i].xb),
                   Max(Prev(netlist, i).xe, netlist[i].xe),
                   shield_width,
                   IF i = 1 THEN netlist[1].ls
                   ELSE Max(netlist[i - 1].us, netlist[i].ls))
        top == Shield(gname, type, Last(netlist).xb, Last(netlist).xe,
                      shield_width, Last(netlist).us)
    IN  Flatten([i \in DOMAIN netlist |-> <<pre(i), netlist[i]>>]) \o <<top>>

build_netlist_with_group_shield(netlist, xb, xe, shield_width) ==
    LET gname == <<group_name(netlist[1]) \o "-shield">>
        type == netlist[1].st
        s_bottom == Shield(gname, type, xb, xe, shield_width, netlist[1].ls)
        s_top == Shield(gname, type, xb, xe, shield_width, Last(netlist).us)
    IN  <<s_bottom>> \o netlist \o <<s_top>>

\* A ShieldedNetList: its data (elems), x_interval and is_group_net
ShieldedNetList(netlist, xb, xe, shield_width) ==
    [st |-> netlist[1].st,
     xb |-> xb, xe |-> xe,
     is_group_net |-> is_group_shield(netlist[1].st),
     data |-> IF ~require_shield(netlist[1]) THEN netlist
              ELSE IF is_group_shield(netlist[1].st)
                   THEN build_netlist_with_group_shield(netlist, xb, xe, shield_width)
                   ELSE build_netlist_with_shield(netlist, shield_width)]

\* The ShieldedNetList as one allocatable (BaseContainer's width and spaces)
snl_unit(snl) ==
    [kind |-> "ShieldedNetList", name |-> <<"unit">>, xb |-> snl.xb, xe |-> snl.xe,
     w |-> total_width(snl.data), us |-> Last(snl.data).us, ls |-> snl.data[1].ls,
     st |-> snl.st, pins |-> <<>>, elems |-> snl.data]

\* the shield types of nl in order of first appearance
RECURSIVE first_seen(_, _)
first_seen(nl, seen) ==
    IF nl = <<>> THEN seen
    ELSE first_seen(Tail(nl),
                    IF \E i \in DOMAIN seen : seen[i] = Head(nl).st THEN seen
                    ELSE Append(seen, Head(nl).st))

\* the netlists of nl by shield type, the types in order of first appearance
by_shield_type(nl, types) ==
    [k \in DOMAIN types |-> SelectSeq(nl, LAMBDA n : n.st = types[k])]

divide_netlist_by_shield_type(nl) == by_shield_type(nl, first_seen(nl, <<>>))

\* A ShieldDict: its ShieldedNetLists in insertion order, and beside them the
\* values of its properties total_netlist, width and width_with_space
sd_sized(xb, xe, snls, total_netlist) ==
    [xb |-> xb, xe |-> xe, snls |-> snls,
     total_netlist |-> total_netlist,
     width |-> total_width(total_netlist),
     width_with_space |->
         total_width(total_netlist) + Last(total_netlist).us + total_netlist[1].ls]

sd_of(xb, xe, snls) == sd_sized(xb, xe, snls, Flatten([k \in DOMAIN snls |-> snls[k].data]))

shielded_netlists(shield_group, xb, xe, shield_width) ==
    [k \in DOMAIN shield_group |-> ShieldedNetList(shield_group[k], xb, xe, shield_width)]

ShieldDict(netlist, xb, xe, shield_width) ==
    sd_of(xb, xe,
          shielded_netlists(divide_netlist_by_shield_type(netlist), xb, xe, shield_width))

\* lexicographic "less than" on key tuples of equal length
RECURSIVE key_less(_, _)
key_less(k1, k2) ==
    IF k1 = <<>> THEN FALSE
    ELSE IF Head(k1) # Head(k2) THEN Head(k1) < Head(k2)
         ELSE key_less(Tail(k1), Tail(k2))

\* Python's sorted: a stable sort of the pairs <<key, value>> by key
RECURSIVE insert_sorted(_, _)
insert_sorted(x, s) ==
    IF s = <<>> THEN <<x>>
    ELSE IF key_less(x[1], Head(s)[1]) THEN <<x>> \o s
         ELSE <<Head(s)>> \o insert_sorted(x, Tail(s))

RECURSIVE sort_pairs(_)
sort_pairs(s) ==
    IF s = <<>> THEN <<>>
    ELSE insert_sorted(Last(s), sort_pairs(SubSeq(s, 1, Len(s) - 1)))

values_of(pairs) == [i \in DOMAIN pairs |-> pairs[i][2]]

\* sorted(s, key = ...), keys[i] being the key tuple of s[i]
sorted(s, keys) == values_of(sort_pairs([i \in DOMAIN s |-> <<keys[i], s[i]>>]))

\* a variant of merge_sorted that ends a merged interval where the interval
\* merged last ends
RECURSIVE merge_sorted_last_end(_, _, _)
merge_sorted_last_end(current_iv, ivs, merged) ==
    IF ivs = <<>> THEN Append(merged, current_iv)
    ELSE IF overlaps(current_iv[1], current_iv[2], Head(ivs)[1], Head(ivs)[2])
         THEN merge_sorted_last_end(<<current_iv[1], Head(ivs)[2]>>, Tail(ivs), merged)
         ELSE merge_sorted_last_end(Head(ivs), Tail(ivs), Append(merged, current_iv))

\* merge_intervals on intervals already sorted by begin
RECURSIVE merge_sorted(_, _, _)
merge_sorted(current_iv, ivs, merged) ==
    IF ivs = <<>> THEN Append(merged, current_iv)
    ELSE IF overlaps(current_iv[1], current_iv[2], Head(ivs)[1], Head(ivs)[2])
         THEN merge_sorted(<<current_iv[1], Max(current_iv[2], Head(ivs)[2])>>,
                           Tail(ivs), merged)
         ELSE merge_sorted(Head(ivs), Tail(ivs), Append(merged, current_iv))

merge_from_first(sorted_intervals) ==
    merge_sorted(Head(sorted_intervals), Tail(sorted_intervals), <<>>)

merge_intervals(ivs) ==
    IF ivs = <<>> THEN <<>>
    ELSE merge_from_first(sorted(ivs, [i \in DOMAIN ivs |-> <<ivs[i][1]>>]))

\* the index of the first merged interval that overlaps net n
first_overlap(merged_intervals, n) ==
    CHOOSE k \in DOMAIN merged_intervals :
        /\ overlaps(merged_intervals[k][1], merged_intervals[k][2], n.xb, n.xe)
        /\ \A j \in 1..(k - 1) :
              ~overlaps(merged_intervals[j][1], merged_intervals[j][2], n.xb, n.xe)

\* BaseContainer.pins: the pins of the nets (not of the shields)
pins_of(total_netlist) ==
    Flatten([i \in DOMAIN total_netlist |->
                IF total_netlist[i].kind = "Net" THEN total_netlist[i].pins ELSE <<>>])

\* An OverlappedIntervalDict: its name, its ShieldDicts (data) in insertion order
\* and, in the fields every allocatable has, the values of its properties
\* x_interval, width, upper_space, lower_space and pins.
oid_sized(net_group_name, data, total_netlist, width, width_with_space) ==
    [kind |-> "OverlappedIntervalDict", name |-> net_group_name, data |-> data,
     xb |-> SeqMin([i \in DOMAIN total_netlist |-> total_netlist[i].xb]),
     xe |-> SeqMax([i \in DOMAIN total_netlist |-> total_netlist[i].xe]),
     w |-> width,
     us |-> IF Len(data) > 1 THEN (width_with_space - width) \div 2
            ELSE Last(total_netlist).us,
     ls |-> IF Len(data) > 1 THEN (width_with_space - width) \div 2
            ELSE total_netlist[1].ls,
     st |-> "", pins |-> pins_of(total_netlist), elems |-> <<>>]

oid_of(net_group_name, data) ==
    oid_sized(net_group_name, data,
              Flatten([k \in DOMAIN data |-> data[k].total_netlist]),
              SeqMax([k \in DOMAIN data |-> data[k].width]),
              SeqMax([k \in DOMAIN data |-> data[k].width_with_space]))

\* Interval equality compares the data too, and a net's x_interval carries the
\* net, so grouping_by_same_interval gives every net a key of its own.
overlapped_shielddicts(netlist, merged_intervals, shield_width) ==
    [k \in DOMAIN merged_intervals |->
        ShieldDict(SelectSeq(netlist, LAMBDA n : first_overlap(merged_intervals, n) = k),
                   merged_intervals[k][1], merged_intervals[k][2], shield_width)]

OverlappedIntervalDict(net_group_name, netlist, shield_width) ==
    oid_of(net_group_name,
           overlapped_shielddicts(
               netlist,
               merge_intervals([i \in DOMAIN netlist |-> <<netlist[i].xb, netlist[i].xe>>]),
               shield_width))

oid_total_netlist(oid) == Flatten([k \in DOMAIN oid.data |-> oid.data[k].total_netlist])

\* Bundle.vertical_wirelength_with_multi_y; a bundle is [name, data: OIDs]
vertical_wirelength_with_multi_y(b, heights) ==
    SeqSum([i \in DOMAIN b.data |-> vertical_wirelength(b.data[i].pins, heights[i])])

bundle_pins(b) == Flatten([i \in DOMAIN b.data |-> b.data[i].pins])

(***************************************************************************)
(* RoutingArea: [id, width, height, x_iv_tree, init_ceilings].  x_iv_tree  *)
(* is the sequence of the Allocations added, in the order they were added  *)
(* (an Allocation is compared by identity in the source, so equal records  *)
(* stay apart).  Every stored width is > 0, as IntervalTree.add requires.  *)
(***************************************************************************)
RoutingArea(id, width, height) ==
    [id |-> id, width |-> width, height |-> height,
     x_iv_tree |-> <<>>, init_ceilings |-> <<>>]

\* y_mid doubled (height + width / 2), to stay in the integers
y_mid2(ra) == 2 * ra.height + ra.width

\* x_overlapped_allocations: the stored allocations (indices) overlapping [xb, xe)
x_overlapped_allocations(ra, xb, xe) ==
    {i \in DOMAIN ra.x_iv_tree :
        xb < xe /\ overlaps(ra.x_iv_tree[i].data.xb, ra.x_iv_tree[i].data.xe, xb, xe)}

\* a variant of top_space_min that takes the greatest upper space
top_space_max(top, ym) ==
    <<ym, CHOOSE m \in {a.data.us : a \in top} : \A a \in top : m >= a.data.us>>

\* the allocations of allocs with the greatest y_max_with_space ym: <<ym, least upper space>>
top_space_min(top, ym) ==
    <<ym, CHOOSE m \in {a.data.us : a \in top} : \A a \in top : m <= a.data.us>>

y_max_and_space(allocs, ym) == top_space_min({a \in allocs : y_max_with_space(a) = ym}, ym)

y_max_space_min(allocs) ==
    IF allocs = {} THEN <<0, 0>>
    ELSE y_max_and_space(allocs,
             CHOOSE m \in {y_max_with_space(a) : a \in allocs} :
                 \A a \in allocs : y_max_with_space(a) <= m)

\* the allocations stored under an x-interval overlapping [xb, xe)
overlapped(ra, xb, xe) == {ra.x_iv_tree[i] : i \in x_overlapped_allocations(ra, xb, xe)}

\* a variant of ceiling_begins that leaves the spaces below out
ceiling_begins_unspaced(allocs, ceiling) ==
    {a.offset : a \in {a \in allocs : contains_point(a.offset, y_max(a), ceiling)}}

\* the begins of the y-intervals, and of the spaces below them, that contain the ceiling
ceiling_begins(allocs, ceiling) ==
    {a.offset : a \in {a \in allocs : contains_point(a.offset, y_max(a), ceiling)}}
    \cup {a.offset - a.data.ls : a \in {a \in allocs :
              a.data.ls > 0 /\ contains_point(a.offset - a.data.ls, a.offset, ceiling)}}

\* the ceiling cuts an allocation, or the space above one
ceiling_invalid(allocs, ceiling) ==
    \/ \E a \in allocs : /\ contains_point(a.offset, y_max(a), ceiling)
                         /\ a.offset # ceiling
    \/ \E a \in allocs : /\ a.data.us > 0
                         /\ contains_point(y_max(a), y_max_with_space(a), ceiling)

space_below(begins, ceiling) ==
    IF begins = {} THEN 0
    ELSE ceiling - (CHOOSE b \in begins : \A c \in begins : b <= c)

ceiling_space_among(allocs, ceiling) ==
    IF ceiling_invalid(allocs, ceiling) THEN None
    ELSE space_below(ceiling_begins(allocs, ceiling), ceiling)

get_ceiling_space(ra, ceiling, xb, xe) == ceiling_space_among(overlapped(ra, xb, xe), ceiling)

\* the x-overlapping allocations that lie under the ceiling
allocs_below_ceiling(allocs, ceiling) ==
    {a \in allocs : /\ 0 < ceiling
                    /\ overlaps(a.offset, y_max(a), 0, ceiling)
                    /\ ~contains_point(a.offset, y_max(a), ceiling)}

\* a variant of offset_above that forgets the height already taken
offset_above_unstacked(ym_sm, alc) == Max(ym_sm[2], alc.ls)

offset_above(ym_sm, alc) == ym_sm[1] - ym_sm[2] + Max(ym_sm[2], alc.ls)

\* a variant of offset_if_fits that does not compare with the ceiling
offset_if_fits_unbounded(alc, ceiling, ceiling_space, offset) ==
    IF ceiling_space = None THEN None ELSE offset

offset_if_fits(alc, ceiling, ceiling_space, offset) ==
    IF ceiling_space = None THEN None
    ELSE IF offset + alc.w + Max(alc.us, ceiling_space) > ceiling THEN None
         ELSE offset

offset_under(ra, alc, ceiling) ==
    offset_if_fits(
        alc, ceiling,
        get_ceiling_space(ra, ceiling, alc.xb, alc.xe),
        offset_above(
            y_max_space_min(allocs_below_ceiling(overlapped(ra, alc.xb, alc.xe), ceiling)),
            alc))

get_offset(ra, alc, ceiling_or_none) ==
    offset_under(ra, alc, IF ceiling_or_none = None THEN ra.width ELSE ceiling_or_none)

allocatable(ra, alc, ceiling) == get_offset(ra, alc, ceiling) # None

\* The allocate family returns [ok, ra, ret]: ok = FALSE is a raised ValueError,
\* ra the area as the call left it, ret the returned y_max_with_space.
Raised(ra) == [ok |-> FALSE, ra |-> ra, ret |-> None]

add_allocation(ra, o, offset) ==
    [ok |-> TRUE,
     ra |-> [ra EXCEPT !.x_iv_tree = Append(@, Allocation(o, offset))],
     ret |-> y_max_with_space(Allocation(o, offset))]

\* a variant of collides that counts the spaces of the allocations as taken
collides_with_space(allocs, b) ==
    \E a \in allocs :
        b.y_min < b.y_max
        /\ overlaps(a.offset - a.data.ls, y_max_with_space(a), b.y_min, b.y_max)

collides(allocs, b) ==
    \E a \in allocs : b.y_min < b.y_max /\ overlaps(a.offset, y_max(a), b.y_min, b.y_max)

allocate_blockage(ra, b) ==
    IF collides(overlapped(ra, b.xb, b.xe), b) THEN Raised(ra)
    ELSE add_allocation(ra, b, b.y_min)

allocate_at(ra, n, offset) ==
    IF offset = None THEN Raised(ra) ELSE add_allocation(ra, n, offset)

allocate_net(ra, n, ceiling) == allocate_at(ra, n, get_offset(ra, n, ceiling))

RECURSIVE allocate_netlist_from(_, _, _, _)
allocate_netlist_from(res, snl, k, ceiling) ==
    IF k > Len(snl) \/ ~res.ok THEN res
    ELSE allocate_netlist_from(allocate_net(res.ra, snl[k], ceiling), snl, k + 1, ceiling)

allocate_netlist(ra, snl, ceiling) ==
    allocate_netlist_from([ok |-> TRUE, ra |-> ra, ret |-> None], snl, 1, ceiling)

\* r after res: the greater of the two returned heights is kept
keep_max(res, r) == IF r.ok THEN [r EXCEPT !.ret = Max(res.ret, r.ret)] ELSE r

\* a ShieldedNetList goes in as one unit if group-shielded, else net by net
allocate_shieldednetlist(ra, snl, ceiling) ==
    IF snl.is_group_net THEN allocate_net(ra, snl_unit(snl), ceiling)
    ELSE allocate_netlist(ra, snl.data, ceiling)

\* res.ret holds max(y_maxs) over the ShieldedNetLists placed so far
RECURSIVE allocate_shielddict_from(_, _, _, _)
allocate_shielddict_from(res, sd, k, ceiling) ==
    IF k > Len(sd.snls) \/ ~res.ok THEN res
    ELSE allocate_shielddict_from(
             keep_max(res, allocate_shieldednetlist(res.ra, sd.snls[k], ceiling)),
             sd, k + 1, ceiling)

allocate_shielddict(ra, sd, ceiling) ==
    allocate_shielddict_from([ok |-> TRUE, ra |-> ra, ret |-> None], sd, 1, ceiling)

RECURSIVE allocate_overlappedintervaldict_from(_, _, _, _)
allocate_overlappedintervaldict_from(res, oid, k, ceiling) ==
    IF k > Len(oid.data) \/ ~res.ok THEN res
    ELSE allocate_overlappedintervaldict_from(
             keep_max(res, allocate_shielddict(res.ra, oid.data[k], ceiling)),
             oid, k + 1, ceiling)

allocate_overlappedintervaldict(ra, oid, ceiling) ==
    allocate_overlappedintervaldict_from(
        [ok |-> TRUE, ra |-> ra, ret |-> None], oid, 1, ceiling)

\* RoutingArea.allocate of a Blockage: the ceilings are recorded first
allocate(ra, b) ==
    allocate_blockage(
        [ra EXCEPT !.init_ceilings = @ \o <<b.y_min, b.y_max>>], b)

\* a variant of expand that leaves the upper space of the element below as
\* the gap, whatever the lower space of the element above
RECURSIVE expand_upper_space(_, _, _)
expand_upper_space(elems, k, offset) ==
    IF k > Len(elems) THEN <<>>
    ELSE <<Allocation(elems[k], offset)>>
         \o (IF k = Len(elems) THEN <<>>
             ELSE expand_upper_space(elems, k + 1, offset + elems[k].w + elems[k].us))

\* RoutingArea.allocations: a ShieldedNetList stored as a unit is expanded
RECURSIVE expand(_, _, _)
expand(elems, k, offset) ==
    IF k > Len(elems) THEN <<>>
    ELSE <<Allocation(elems[k], offset)>>
         \o (IF k = Len(elems) THEN <<>>
             ELSE expand(elems, k + 1,
                         offset + elems[k].w + Max(elems[k].us, elems[k + 1].ls)))

allocations(ra) ==
    Flatten([i \in DOMAIN ra.x_iv_tree |->
                IF ra.x_iv_tree[i].data.kind = "ShieldedNetList"
                THEN expand(ra.x_iv_tree[i].data.elems, 1, ra.x_iv_tree[i].offset)
                ELSE <<ra.x_iv_tree[i]>>])

(***************************************************************************)
(* Preprocessing.  A net group dict is a sequence of [name, nl] in         *)
(* insertion order; a result [ok, ...] with ok = FALSE is a raised         *)
(* ValueError.                                                             *)
(***************************************************************************)
generate_overlapped_interval_dict(nl, shield_width) ==
    OverlappedIntervalDict(group_name(nl[1]), nl, shield_width)

\* a variant of divide_width that drops what is left after the full parts
divide_width_whole_parts(w, factor) == [i \in 1..(w \div factor) |-> factor]

divide_width(w, factor) ==
    LET quotient == w \div factor
        remainder == w % factor
    IN  [i \in 1..quotient |-> factor]
        \o (IF remainder = 0 THEN <<>> ELSE <<remainder>>)

allocatable_width_max(net, shield_width, routing_area_width) ==
    IF is_none(net.st) THEN routing_area_width - (net.us + net.ls)
    ELSE routing_area_width - (net.us * 2 + net.ls * 2 + shield_width * 2)

\* the children "{name}_c{i}" of net, one per width
divided_nets(net, divided_widths) ==
    [i \in DOMAIN divided_widths |->
        Net(Append(net.name, i - 1), divided_widths[i], net.us, net.pins, net.st)]

\* [ok, nl]: ok = FALSE is the ValueError
trunk_division(net, shield_width, routing_area_width) ==
    IF allocatable_width_max(net, shield_width, routing_area_width) <= 0
    THEN [ok |-> FALSE, nl |-> <<>>]
    ELSE [ok |-> TRUE,
          nl |-> divided_nets(net,
                    divide_width(net.w,
                        allocatable_width_max(net, shield_width, routing_area_width)))]

singletons(nl) == [i \in DOMAIN nl |-> <<nl[i]>>]

\* grouping from net k on; tmp_nl and groups as the loop has left them: [ok, groups]
RECURSIVE grouping_from(_, _, _, _, _, _)
\* the net does not fit alone: it is split (d), and tmp_nl stays as it is
grouping_split(netlist, k, tmp, groups, shield_width, routing_area, d) ==
    IF ~d.ok THEN [ok |-> FALSE, groups |-> groups]
    ELSE grouping_from(netlist, k + 1, tmp, groups \o singletons(d.nl),
                       shield_width, routing_area)

\* one turn of the loop, tmp being tmp_nl after the append
grouping_turn(netlist, k, tmp, groups, shield_width, routing_area) ==
    IF allocatable(routing_area, generate_overlapped_interval_dict(tmp, shield_width), None)
    THEN grouping_from(netlist, k + 1, tmp, groups, shield_width, routing_area)
    ELSE IF Len(tmp) = 1
         THEN grouping_split(netlist, k, tmp, groups, shield_width, routing_area,
                             trunk_division(tmp[1], shield_width, routing_area.width))
         ELSE grouping_from(netlist, k + 1, <<netlist[k]>>,
                            Append(groups, SubSeq(tmp, 1, Len(tmp) - 1)),
                            shield_width, routing_area)

grouping_from(netlist, k, tmp_nl, groups, shield_width, routing_area) ==
    IF k > Len(netlist)
    THEN [ok |-> TRUE, groups |-> IF tmp_nl # <<>> THEN Append(groups, tmp_nl) ELSE groups]
    ELSE grouping_turn(netlist, k, Append(tmp_nl, netlist[k]), groups,
                       shield_width, routing_area)

grouping(netlist, shield_width, routing_area) ==
    grouping_from(netlist, 1, <<>>, <<>>, shield_width, routing_area)

grouping_of_division(d, shield_width, routing_area) ==
    IF d.ok THEN grouping(d.nl, shield_width, routing_area)
    ELSE [ok |-> FALSE, groups |-> <<>>]

\* the groups of a net group that does not fit one area (preprocessing.run 132-140)
groups_of(nl, shield_width, routing_area) ==
    IF Len(nl) = 1
    THEN grouping_of_division(trunk_division(nl[1], shield_width, routing_area.width),
                              shield_width, routing_area)
    ELSE grouping(nl, shield_width, routing_area)

\* containers.Bundle: a name and its components
Bundle(net_group_name, components_of_one_net) ==
    [name |-> net_group_name, data |-> components_of_one_net]

components_of(groups, shield_width) ==
    [i \in DOMAIN groups |-> generate_overlapped_interval_dict(groups[i], shield_width)]

bundle_of_groups(net_group_name, g, shield_width) ==
    [ok |-> g.ok, b |-> Bundle(net_group_name, components_of(g.groups, shield_width))]

\* The Bundle preprocessing.run builds: [ok, b]
bundle_of(net_group_name, nl, shield_width, routing_area) ==
    bundle_of_groups(net_group_name, groups_of(nl, shield_width, routing_area), shield_width)

\* preprocessing.run from group k on: [ok, oids, bundles]
RECURSIVE preprocessing_from(_, _, _, _, _, _)
preprocessing_bundle(net_group_dict, k, oids, bundles, shield_width, routing_area, r) ==
    IF ~r.ok THEN [ok |-> FALSE, oids |-> oids, bundles |-> bundles]
    ELSE preprocessing_from(net_group_dict, k + 1, oids, Append(bundles, r.b),
                            shield_width, routing_area)

preprocessing_turn(net_group_dict, k, oids, bundles, shield_width, routing_area, oid) ==
    IF allocatable(routing_area, oid, None)
    THEN preprocessing_from(net_group_dict, k + 1, Append(oids, oid), bundles,
                            shield_width, routing_area)
    ELSE preprocessing_bundle(net_group_dict, k, oids, bundles, shield_width, routing_area,
             bundle_of(net_group_dict[k].name, net_group_dict[k].nl, shield_width,
                       routing_area))

preprocessing_from(net_group_dict, k, oids, bundles, shield_width, routing_area) ==
    IF k > Len(net_group_dict) THEN [ok |-> TRUE, oids |-> oids, bundles |-> bundles]
    ELSE preprocessing_turn(net_group_dict, k, oids, bundles, shield_width, routing_area,
             generate_overlapped_interval_dict(net_group_dict[k].nl, shield_width))

preprocessing_run(net_group_dict, shield_width, routing_area) ==
    preprocessing_from(net_group_dict, 1, <<>>, <<>>, shield_width, routing_area)

(***************************************************************************)
(* The bundle scheduler.  ras is the list of routing areas.                *)
(***************************************************************************)
sort_bundles(bundles) ==
    sorted(bundles, [i \in DOMAIN bundles |-> <<0 - Len(bundle_pins(bundles[i]))>>])

\* the assignable check of window start i (1-based)
assignable(ras, b, i) ==
    \A j \in DOMAIN b.data : allocatable(ras[i + j - 1], b.data[j], None)

window_vwl(ras, b, i) ==
    vertical_wirelength_with_multi_y(b, [j \in DOMAIN b.data |-> ras[i + j - 1].height])

\* the window starts the loop visits
window_starts(ras, b) == 1..(Len(ras) - Len(b.data) + 1)

\* a variant of first_best that lets a later window of equal wirelength win
last_best(ras, b, ok) ==
    IF ok = {} THEN 0
    ELSE CHOOSE i \in ok :
             \A j \in ok : \/ window_vwl(ras, b, i) < window_vwl(ras, b, j)
                           \/ (window_vwl(ras, b, i) = window_vwl(ras, b, j) /\ i >= j)

\* the first of the windows ok with the least wirelength; 0 if there is none
first_best(ras, b, ok) ==
    IF ok = {} THEN 0
    ELSE CHOOSE i \in ok :
             \A j \in ok : \/ window_vwl(ras, b, i) < window_vwl(ras, b, j)
                           \/ (window_vwl(ras, b, i) = window_vwl(ras, b, j) /\ i <= j)

best_start_idx(ras, b) ==
    first_best(ras, b, {i \in window_starts(ras, b) : assignable(ras, b, i)})

\* the assign loop from component j on: [ok, ras]
RECURSIVE assign_from(_, _, _, _)
\* a variant of assigned that ends the assign loop after the first component
assigned_once(ras, b, start, j, offset, r) ==
    [ok |-> r.ok,
     ras |-> [ras EXCEPT ![start + j - 1] =
                 IF r.ok THEN [r.ra EXCEPT !.init_ceilings = @ \o <<offset, r.ret>>]
                 ELSE r.ra]]

\* component j has been allocated (r) at offset: its two ceilings are recorded
assigned(ras, b, start, j, offset, r) ==
    IF ~r.ok THEN [ok |-> FALSE, ras |-> [ras EXCEPT ![start + j - 1] = r.ra]]
    ELSE assign_from(
             [ras EXCEPT ![start + j - 1] =
                 [r.ra EXCEPT !.init_ceilings = @ \o <<offset, r.ret>>]],
             b, start, j + 1)

assign_from(ras, b, start, j) ==
    IF j > Len(b.data) THEN [ok |-> TRUE, ras |-> ras]
    ELSE assigned(ras, b, start, j,
                  get_offset(ras[start + j - 1], b.data[j], None),
                  allocate_overlappedintervaldict(ras[start + j - 1], b.data[j], None))

assign_result(r) == [ok |-> r.ok, ras |-> r.ras, unallocatable |-> <<>>]

\* a variant of allocate_at_window that reports a bundle only if it has one component
allocate_at_window_single(ras, b, start) ==
    IF start = 0
    THEN [ok |-> TRUE, ras |-> ras,
          unallocatable |-> IF Len(b.data) = 1 THEN <<b.name>> ELSE <<>>]
    ELSE assign_result(assign_from(ras, b, start, 1))

allocate_at_window(ras, b, start) ==
    IF start = 0 THEN [ok |-> TRUE, ras |-> ras, unallocatable |-> <<b.name>>]
    ELSE assign_result(assign_from(ras, b, start, 1))

\* one iteration of greedy_allocate_bundles' loop: [ok, ras, unallocatable]
allocate_bundle(ras, b) == allocate_at_window(ras, b, best_start_idx(ras, b))

(***************************************************************************)
(* Net and area priorities (cap_sort, GCO, CCAP).  y_mid values are        *)
(* doubled, and congestion is scaled by n!, to stay in the integers.       *)
(***************************************************************************)
RECURSIVE Factorial(_)
Factorial(n) == IF n <= 1 THEN 1 ELSE n * Factorial(n - 1)

sorted_ys(ys) == sorted(ys, [i \in DOMAIN ys |-> <<ys[i]>>])

sorted_pin_ys(pins) == sorted_ys([i \in DOMAIN pins |-> pins[i][2]])

y_mid_upper(pins) == sorted_pin_ys(pins)[(Len(pins) \div 2) + 1]

y_mid_lower(pins) ==
    IF Len(pins) % 2 # 0 THEN sorted_pin_ys(pins)[(Len(pins) \div 2) + 1]
    ELSE sorted_pin_ys(pins)[Len(pins) \div 2]

\* 2 * y_mid of a wire
wire_y_mid2(pins) == y_mid_lower(pins) + y_mid_upper(pins)

\* 2 * vertical_wirelength(y) for y = y2 / 2
vertical_wirelength2(pins, y2) ==
    SeqSum([i \in DOMAIN pins |-> Abs(2 * pins[i][2] - y2)])

cap_sort(oids) ==
    sorted(oids, [i \in DOMAIN oids |-> <<0 - oids[i].w, oids[i].xb>>])

\* np.argsort of |gap - y| over the doubled y_mids ys2: the indices, nearest first
argsort_diff(ys2, y2) ==
    sorted([j \in DOMAIN ys2 |-> j], [j \in DOMAIN ys2 |-> <<Abs(ys2[j] - y2)>>])

get_optimal_routing_areas(oid, ras) ==
    SelectSeq([j \in DOMAIN ras |-> j],
              LAMBDA j : /\ 2 * y_mid_lower(oid.pins) <= y_mid2(ras[j])
                         /\ y_mid2(ras[j]) <= 2 * y_mid_upper(oid.pins))

\* the nearer in wirelength of the two areas nearest in y (at most one if alone)
closer_of(oid, ras, first_close_idx, second_close_idx) ==
    IF vertical_wirelength2(oid.pins, y_mid2(ras[first_close_idx]))
           < vertical_wirelength2(oid.pins, y_mid2(ras[second_close_idx]))
    THEN first_close_idx ELSE second_close_idx

best_in_order(oid, ras, order) ==
    closer_of(oid, ras, order[1], IF Len(ras) = 1 THEN order[1] ELSE order[2])

get_best_routing_area(oid, ras) ==
    best_in_order(oid, ras,
                  argsort_diff([j \in DOMAIN ras |-> y_mid2(ras[j])], wire_y_mid2(oid.pins)))

or_best(oid, ras, opt_ras) ==
    IF opt_ras = <<>> THEN <<get_best_routing_area(oid, ras)>> ELSE opt_ras

\* opt_ras[i]: the areas (positions in ras) remaining_oids[i] adds congestion to
opt_ras_of(ras, remaining_oids) ==
    [i \in DOMAIN remaining_oids |->
        or_best(remaining_oids[i], ras, get_optimal_routing_areas(remaining_oids[i], ras))]

\* ra.congestion * Len(ras)! for every area of ras
congestion(ras, opt_ras) ==
    [j \in DOMAIN ras |->
        SeqSum([i \in DOMAIN opt_ras |->
                   IF j \in Range(opt_ras[i])
                   THEN Factorial(Len(ras)) \div Len(opt_ras[i]) ELSE 0])]

by_congestion(ras, c) ==
    sorted([j \in DOMAIN ras |-> j], [j \in DOMAIN ras |-> <<0 - c[j]>>])

\* prioritize_routing_areas(congestion_first = True): the positions of ras, reordered
prioritize_routing_areas(ras, remaining_oids) ==
    by_congestion(ras, congestion(ras, opt_ras_of(ras, remaining_oids)))

nearest_wirelength(oid, gap_heights2, order) ==
    Min(vertical_wirelength2(oid.pins, gap_heights2[order[1]]),
        vertical_wirelength2(oid.pins,
            gap_heights2[IF Len(gap_heights2) = 1 THEN order[1] ELSE order[2]]))

\* wirelength_priority, doubled: gap_heights2 are the doubled y_mids of the areas left
wirelength_priority(oid, gap_heights2, target_gap_height2) ==
    IF gap_heights2 = <<>> THEN 0
    ELSE nearest_wirelength(oid, gap_heights2,
                            argsort_diff(gap_heights2, wire_y_mid2(oid.pins)))
         - vertical_wirelength2(oid.pins, target_gap_height2)

criticality_based_priority(oids, gap_heights2, target_gap_height2) ==
    sorted(oids, [i \in DOMAIN oids |->
                     <<0 - oids[i].w,
                       0 - wirelength_priority(oids[i], gap_heights2, target_gap_height2),
                       oids[i].xb>>])

(***************************************************************************)
(* max_density_zones and is_desired_net.  A zone is <<begin, end>>.        *)
(***************************************************************************)
RECURSIVE ascending(_)
ascending(S) ==
    IF S = {} THEN <<>>
    ELSE <<CHOOSE a \in S : \A b \in S : a <= b>>
         \o ascending(S \ {CHOOSE a \in S : \A b \in S : a <= b})

\* the keys of diff_density, ascending
density_keys(oids) ==
    ascending({oids[i].xb : i \in DOMAIN oids} \cup {oids[i].xe : i \in DOMAIN oids})

\* conflict_nets after the events of key k: positions in oids
conflict_nets(oids, k) == {i \in DOMAIN oids : oids[i].xb <= k /\ k < oids[i].xe}

\* the command of the last event filed under key k
last_command(oids, k) ==
    IF oids[CHOOSE i \in DOMAIN oids :
                /\ oids[i].xb = k \/ oids[i].xe = k
                /\ \A j \in DOMAIN oids : (oids[j].xb = k \/ oids[j].xe = k) => j <= i].xb = k
    THEN "add" ELSE "remove"

RECURSIVE SetSum(_, _)
SetSum(S, f) ==
    IF S = {} THEN 0
    ELSE f[CHOOSE b \in S : TRUE] + SetSum(S \ {CHOOSE b \in S : TRUE}, f)

\* the body of the loop for key k with conflict_nets not empty;
\* acc = [max_density, start_x, zones]
density_update(acc, k, density, command) ==
    IF command = "add"
    THEN IF acc.max_density < density
         THEN [max_density |-> density, start_x |-> k, zones |-> <<>>]
         ELSE IF acc.max_density = density THEN [acc EXCEPT !.start_x = k] ELSE acc
    ELSE IF acc.start_x # None
         THEN [acc EXCEPT !.zones = Append(@, <<acc.start_x, k>>), !.start_x = None]
         ELSE acc

density_turn(oids, acc, k, cn) ==
    IF cn = {} THEN acc
    ELSE density_update(acc, k, SetSum(cn, [i \in DOMAIN oids |-> oids[i].w]),
                        last_command(oids, k))

\* the loop over the sorted keys
RECURSIVE density_scan(_, _, _, _)
density_scan(oids, keys, n, acc) ==
    IF n > Len(keys) THEN acc
    ELSE density_scan(oids, keys, n + 1,
                      density_turn(oids, acc, keys[n], conflict_nets(oids, keys[n])))

max_density_zones(oids) ==
    density_scan(oids, density_keys(oids), 1,
                 [max_density |-> 0, start_x |-> None, zones |-> <<>>])

\* a variant of is_desired_net that looks at no zone
is_desired_net_any(available_start_x, density_zones, oid) == available_start_x < oid.xb

is_desired_net(available_start_x, density_zones, oid) ==
    \A n \in DOMAIN density_zones :
        ~(available_start_x < density_zones[n][1] /\ density_zones[n][1] < oid.xb)

(***************************************************************************)
(* The height_limit_queue: a heap, kept here as an ascending sequence.     *)
(***************************************************************************)
heappush(q, c) ==
    SelectSeq(q, LAMBDA e : e <= c) \o <<c>> \o SelectSeq(q, LAMBDA e : e > c)

RECURSIVE heappush_all(_, _)
heappush_all(q, cs) ==
    IF cs = <<>> THEN q ELSE heappush_all(heappush(q, Head(cs)), Tail(cs))

heappop(q) == Tail(q)

remove_at(s, i) == SubSeq(s, 1, i - 1) \o SubSeq(s, i + 1, Len(s))

(***************************************************************************)
(* left_edge, cap and ccap as a step machine.  A run is the record         *)
(*   alg, use_gco      the algorithm and its area-ordering flag            *)
(*   ras               the routing areas, by position                      *)
(*   remaining_ras, routed_ras   positions in ras                          *)
(*   remaining_oids    the OIDs not yet allocated, in priority order       *)
(*   queue             height_limit_queue                                  *)
(*   target, height_limit, x, zones, new_ceiling_heights, oid_is_routed    *)
(*   pc                "outer"  at the head of the outer while             *)
(*                     "pass"   at the head of the inner while True        *)
(*                     "scan"   inside the placement loop of cap / ccap    *)
(*                     "done"   returned;  "raised"  allocate raised       *)
(***************************************************************************)
initial_order(alg, oids) ==
    IF alg = "le" THEN sorted(oids, [i \in DOMAIN oids |-> <<oids[i].xb>>])
    ELSE IF alg = "cap" THEN cap_sort(oids)
    ELSE oids

channel_start(alg, use_gco, oids, ras) ==
    [alg |-> alg, use_gco |-> use_gco, ras |-> ras,
     remaining_ras |-> [j \in DOMAIN ras |-> j], routed_ras |-> <<>>,
     remaining_oids |-> initial_order(alg, oids),
     queue |-> <<>>, target |-> 0, height_limit |-> None, x |-> MinusInf,
     zones |-> <<>>, new_ceiling_heights |-> <<>>, oid_is_routed |-> FALSE,
     pc |-> "outer"]

\* the outer loop is left: remaining_oids is empty or no area is left
outer_exit(st) == st.remaining_oids = <<>> \/ st.remaining_ras = <<>>

channel_return(st) == [st EXCEPT !.pc = "done"]

areas_at(ras, positions) == [n \in DOMAIN positions |-> ras[positions[n]]]

reordered(positions, order) == [n \in DOMAIN order |-> positions[order[n]]]

\* the positions of the areas left, in the order the algorithm will pop them
area_order(st) ==
    IF st.alg = "ccap" \/ st.use_gco
    THEN reordered(st.remaining_ras,
                   prioritize_routing_areas(areas_at(st.ras, st.remaining_ras),
                                            st.remaining_oids))
    ELSE st.remaining_ras

\* target_ra = order[0] is popped, its init_ceilings are pushed, ccap re-sorts the OIDs
take_target(st, order) ==
    [st EXCEPT !.remaining_ras = Tail(order),
               !.routed_ras = Append(@, Head(order)),
               !.target = Head(order),
               !.queue = heappush_all(@, st.ras[Head(order)].init_ceilings),
               !.remaining_oids =
                   IF st.alg = "ccap"
                   THEN criticality_based_priority(
                            @, [n \in DOMAIN Tail(order) |-> y_mid2(st.ras[Tail(order)[n]])],
                            y_mid2(st.ras[Head(order)]))
                   ELSE @,
               !.pc = "pass"]

select_target(st) == take_target(st, area_order(st))

\* a variant of current_limit that takes the loosest ceiling of the heap
current_limit_loosest(st) == IF st.queue = <<>> THEN None ELSE st.queue[Len(st.queue)]

current_limit(st) == IF st.queue = <<>> THEN None ELSE st.queue[1]


\* left_edge's for loop over remaining_oids: acc = [ok, ra, x, remove_oids]
\* a variant of le_allocated that does not note the OID for removal
le_allocated_unnoted(acc, oid, i, r) ==
    [ok |-> r.ok, ra |-> r.ra, x |-> oid.xe, remove_oids |-> acc.remove_oids]

le_allocated(acc, oid, i, r) ==
    [ok |-> r.ok, ra |-> r.ra, x |-> oid.xe, remove_oids |-> acc.remove_oids \cup {i}]

le_visit(acc, oid, i, height_limit) ==
    IF acc.x < oid.xb /\ allocatable(acc.ra, oid, height_limit)
    THEN le_allocated(acc, oid, i, allocate_overlappedintervaldict(acc.ra, oid, height_limit))
    ELSE acc

RECURSIVE le_sweep(_, _, _, _)
le_sweep(oids, i, height_limit, acc) ==
    IF i > Len(oids) \/ ~acc.ok THEN acc
    ELSE le_sweep(oids, i + 1, height_limit, le_visit(acc, oids[i], i, height_limit))

without(s, removed) ==
    values_of(SelectSeq([i \in DOMAIN s |-> <<i, s[i]>>], LAMBDA p : p[1] \notin removed))

\* the rest of the turn, r being what the for loop has left
le_swept(st, r) ==
    IF ~r.ok THEN [st EXCEPT !.pc = "raised"]
    ELSE IF r.remove_oids = {}
    THEN IF st.height_limit = None THEN [st EXCEPT !.pc = "outer"]
         ELSE [st EXCEPT !.queue = heappop(@)]
    ELSE [st EXCEPT !.remaining_oids = without(@, r.remove_oids)]

le_after(st, r) ==
    le_swept([st EXCEPT !.x = r.x, !.ras = [@ EXCEPT ![st.target] = r.ra]], r)

le_under(st) ==
    le_after(st, le_sweep(st.remaining_oids, 1, st.height_limit,
                          [ok |-> TRUE, ra |-> st.ras[st.target], x |-> MinusInf,
                           remove_oids |-> {}]))

\* one turn of left_edge's inner while True
le_pass(st) == le_under([st EXCEPT !.height_limit = current_limit(st)])

\* cap / ccap: the head of the inner while True
begin_pass(st) ==
    [st EXCEPT !.height_limit = current_limit(st),
               !.oid_is_routed = FALSE,
               !.x = MinusInf,
               !.zones = max_density_zones(st.remaining_oids).zones,
               !.new_ceiling_heights = <<>>,
               !.pc = "scan"]

\* the positions of remaining_oids the for loop would allocate
candidates(st) ==
    {i \in DOMAIN st.remaining_oids :
        /\ st.x < st.remaining_oids[i].xb
        /\ is_desired_net(st.x, st.zones, st.remaining_oids[i])
        /\ allocatable(st.ras[st.target], st.remaining_oids[i], st.height_limit)}

first_of(S) == CHOOSE c \in S : \A d \in S : c <= d

\* remaining_oids[i] has been allocated (r)
placed(st, i, r) ==
    IF ~r.ok THEN [st EXCEPT !.ras = [@ EXCEPT ![st.target] = r.ra], !.pc = "raised"]
    ELSE [st EXCEPT !.ras = [@ EXCEPT ![st.target] = r.ra],
                    !.new_ceiling_heights = Append(@, r.ret),
                    !.x = st.remaining_oids[i].xe,
                    !.remaining_oids = remove_at(@, i),
                    !.oid_is_routed = TRUE]

place_at(st, i) ==
    placed(st, i, allocate_overlappedintervaldict(st.ras[st.target], st.remaining_oids[i],
                                                  st.height_limit))

\* cap / ccap: the for loop finds an OID and allocates it
place(st) == place_at(st, first_of(candidates(st)))

\* a variant of end_pass that leaves the area at the first ceiling nothing fits under
end_pass_leave(st) ==
    IF ~st.oid_is_routed THEN [st EXCEPT !.pc = "outer"]
    ELSE [st EXCEPT !.queue = heappush_all(@, st.new_ceiling_heights), !.pc = "pass"]

\* a variant of end_pass that keeps the ceiling it could not place under
end_pass_keep(st) ==
    IF ~st.oid_is_routed
    THEN IF st.height_limit = None THEN [st EXCEPT !.pc = "outer"]
         ELSE [st EXCEPT !.pc = "pass"]
    ELSE [st EXCEPT !.queue = heappush_all(@, st.new_ceiling_heights), !.pc = "pass"]

\* cap / ccap: the for loop finds nothing and the pass ends
end_pass(st) ==
    IF ~st.oid_is_routed
    THEN IF st.height_limit = None THEN [st EXCEPT !.pc = "outer"]
         ELSE [st EXCEPT !.queue = heappop(@), !.pc = "pass"]
    ELSE [st EXCEPT !.queue = heappush_all(@, st.new_ceiling_heights), !.pc = "pass"]

(***************************************************************************)
(* ProblemSettings.  A settings record ps has the fields                   *)
(*   algorithm_name, use_gco, n_gaps, n_subchannels, interval,             *)
(*   y_bottom_blockage, blockage_x_intervals, subchannel_x_intervals,      *)
(*   gap_width, shield_width, subchannel_width                             *)
(* and reserved_areas, the rows read_reserved_areas returns, each          *)
(* [xb, xe, yb, ye].  An x-interval is <<begin, end>>.  A net_group_dict   *)
(* is the sequence of its items [name, nl] in insertion order.             *)
(***************************************************************************)
gap_interval(ps) == ps.interval - ps.gap_width

gap_height(ps, i) == ps.y_bottom_blockage + (i + 1) * gap_interval(ps) + i * ps.gap_width

generate_gap(ps) == RoutingArea(None, ps.gap_width, None)

generate_gaps(ps) == [n \in 1..ps.n_gaps |-> RoutingArea(n - 1, ps.gap_width, gap_height(ps, n - 1))]

num_subchannel_cols(ps) == Len(ps.subchannel_x_intervals)

subchannel_height(ps, i) == ps.y_bottom_blockage + i * ps.interval

generate_subchannel(ps) == RoutingArea(None, ps.subchannel_width, None)

generate_subchannels(ps) ==
    [n \in 1..ps.n_subchannels |->
        RoutingArea(n - 1, ps.subchannel_width, subchannel_height(ps, n - 1))]

dict_keys(d) == {d[k].name : k \in DOMAIN d}

dict_get(d, name) == d[CHOOSE k \in DOMAIN d : d[k].name = name].nl

\* d[name] = nl: an existing key keeps its place, a new key goes last
dict_set(d, name, nl) ==
    IF name \in dict_keys(d)
    THEN [k \in DOMAIN d |-> IF d[k].name = name THEN [name |-> name, nl |-> nl] ELSE d[k]]
    ELSE Append(d, [name |-> name, nl |-> nl])

dict_del(d, names) == SelectSeq(d, LAMBDA it : it.name \notin names)

(***************************************************************************)
(* main.divide_nets_into_local_or_global                                   *)
(***************************************************************************)
\* a variant of overlap_blockage_x_interval that takes the intervals as closed
overlap_blockage_x_interval_closed(net, blockages_x_intervals) ==
    \E n \in DOMAIN blockages_x_intervals :
        /\ net.xb <= blockages_x_intervals[n][2]
        /\ net.xe >= blockages_x_intervals[n][1]

overlap_blockage_x_interval(net, blockages_x_intervals) ==
    \E n \in DOMAIN blockages_x_intervals :
        overlaps(net.xb, net.xe, blockages_x_intervals[n][1], blockages_x_intervals[n][2])

\* [ok, global_net_group_dict, local_net_group_dict]; ok = FALSE is the ValueError
divide_nets_into_local_or_global(net_group_dict, blockages_x_intervals) ==
    LET global_nl(nl) == SelectSeq(nl, LAMBDA n : overlap_blockage_x_interval(n, blockages_x_intervals))
        local_nl(nl) == SelectSeq(nl, LAMBDA n : ~overlap_blockage_x_interval(n, blockages_x_intervals))
        mixed(it) == global_nl(it.nl) # <<>> /\ local_nl(it.nl) # <<>>
    IN  IF \E k \in DOMAIN net_group_dict : mixed(net_group_dict[k])
        THEN [ok |-> FALSE, global_net_group_dict |-> <<>>, local_net_group_dict |-> <<>>]
        ELSE [ok |-> TRUE,
              global_net_group_dict |->
                  SelectSeq(net_group_dict, LAMBDA it : global_nl(it.nl) # <<>>),
              local_net_group_dict |->
                  SelectSeq(net_group_dict, LAMBDA it : global_nl(it.nl) = <<>>)]

(***************************************************************************)
(* local_routing                                                           *)
(***************************************************************************)
\* the column (0-based) the loop of divide_nets_by_block files net n under
block_of(n, blockage_x_intervals) ==
    LET hit == {i \in DOMAIN blockage_x_intervals : n.xe < blockage_x_intervals[i][1]}
    IN  IF hit = {} THEN Len(blockage_x_intervals)
        ELSE (CHOOSE i \in hit : \A j \in hit : i <= j) - 1

\* [ok, by_block]: by_block[col + 1] is the dict of column col; ok = FALSE is the
\* failed assertion
divide_nets_by_block(net_group_dict, ps) ==
    LET cols(it) == {block_of(it.nl[k], ps.blockage_x_intervals) : k \in DOMAIN it.nl}
        col_no(it) == CHOOSE c \in cols(it) : TRUE
    IN  IF \E k \in DOMAIN net_group_dict : Cardinality(cols(net_group_dict[k])) # 1
        THEN [ok |-> FALSE, by_block |-> <<>>]
        ELSE [ok |-> TRUE,
              by_block |-> [c \in 1..(Len(ps.blockage_x_intervals) + 1) |->
                               SelectSeq(net_group_dict, LAMBDA it : col_no(it) = c - 1)]]

\* blockages[col][i] of read_blockages: the reserved areas cut to sub-channel i
\* of column col, in local y
read_blockages(ps, col, i) ==
    LET height == ps.y_bottom_blockage + i * ps.interval
        sx == ps.subchannel_x_intervals[col + 1]
        hits(ra) == /\ overlap_size(sx[1], sx[2], ra.xb, ra.xe) > 0
                    /\ overlap_size(height, height + ps.subchannel_width, ra.yb, ra.ye) > 0
        cut(ra) == Blockage(Max(sx[1], ra.xb), Min(sx[2], ra.xe),
                            Max(height, ra.yb) - height,
                            Min(height + ps.subchannel_width, ra.ye) - height)
        sel == SelectSeq(ps.reserved_areas, hits)
    IN  [n \in DOMAIN sel |-> cut(sel[n])]

get_unallocatable_net_dict_after_divisoin(net_group_dict, target_area_width, shield_width) ==
    SelectSeq(net_group_dict,
              LAMBDA it : \E k \in DOMAIN it.nl :
                  allocatable_width_max(it.nl[k], shield_width, target_area_width) <= 0)

\* subchannel.allocate(b) for the blockages bs from the n-th on: [ok, ra]
RECURSIVE allocate_blockages(_, _, _)
allocate_blockages(ra, bs, n) ==
    IF n > Len(bs) THEN [ok |-> TRUE, ra |-> ra]
    ELSE LET r == allocate(ra, bs[n])
         IN  IF ~r.ok THEN [ok |-> FALSE, ra |-> r.ra]
             ELSE allocate_blockages(r.ra, bs, n + 1)

\* the sub-channels of column col with their blockages: [ok, ras]
all_blocked(rs) ==
    [ok |-> \A n \in DOMAIN rs : rs[n].ok, ras |-> [n \in DOMAIN rs |-> rs[n].ra]]

blocked_subchannels(ps, col) ==
    all_blocked([n \in 1..ps.n_subchannels |->
                    allocate_blockages(generate_subchannels(ps)[n],
                                       read_blockages(ps, col, n - 1), 1)])

(***************************************************************************)
(* The program state: main.two_step_routing, stepped.                      *)
(*   ps, netlist_dict   the settings and the netlist read at start-up      *)
(*   pc                 the position in two_step_routing / local_routing / *)
(*                      global_routing                                     *)
(*   stage              "local" or "global"                                *)
(*   col                the column local routing is at                     *)
(*   ras                the routing areas of the stage in progress         *)
(*   run                the channel algorithm in progress                  *)
(* and, for the specifications that drive the kernel by itself:            *)
(*   area               a RoutingArea that is called directly              *)
(*   call               the call made last: its arguments and its result   *)
(***************************************************************************)
VARIABLES ps, netlist_dict, area, call, pc, stage, col,
          global_net_group_dict, local_net_group_dict,
          unallocatable_net_group_dict, net_group_dict_by_block,
          subchannel_dict, gaps,
          ras, oids, bundles, bundle_idx, unallocatable_net_group_names, run

vars == <<ps, netlist_dict, area, call, pc, stage, col,
          global_net_group_dict, local_net_group_dict,
          unallocatable_net_group_dict, net_group_dict_by_block,
          subchannel_dict, gaps,
          ras, oids, bundles, bundle_idx, unallocatable_net_group_names, run>>

\* what no step of two_step_routing writes
input_vars == <<ps, netlist_dict, area, call>>

\* no call of the kernel by itself has been made
no_call == [op |-> "none", done |-> TRUE]

dict_vars == <<global_net_group_dict, local_net_group_dict,
               unallocatable_net_group_dict, net_group_dict_by_block>>

stage_vars == <<ras, oids, bundles, bundle_idx, unallocatable_net_group_names, run>>

no_run == channel_return(channel_start("le", FALSE, <<>>, <<>>))

\* the net_group_dict the stage in progress routes
stage_net_group_dict ==
    IF stage = "local" THEN net_group_dict_by_block[col + 1] ELSE global_net_group_dict

\* the one-area template preprocessing.run measures groups against
stage_template == IF stage = "local" THEN generate_subchannel(ps) ELSE generate_gap(ps)

\* main.py 94-97
Divided(r) ==
    /\ pc' = IF r.ok THEN "filter" ELSE "raised"
    /\ global_net_group_dict' = r.global_net_group_dict
    /\ local_net_group_dict' = r.local_net_group_dict

DivideLocalGlobal ==
    /\ pc = "start"
    /\ Divided(divide_nets_into_local_or_global(netlist_dict, ps.blockage_x_intervals))
    /\ UNCHANGED <<input_vars, stage, col, unallocatable_net_group_dict,
                   net_group_dict_by_block, subchannel_dict, gaps, stage_vars>>

\* local_routing.run 125-141: groups no split can fit are set aside
RemoveUnsplittable ==
    /\ pc = "filter"
    /\ LET remove_net_dict == get_unallocatable_net_dict_after_divisoin(
                                  local_net_group_dict, ps.subchannel_width, ps.shield_width)
       IN  /\ unallocatable_net_group_dict' = remove_net_dict
           /\ local_net_group_dict' = dict_del(local_net_group_dict, dict_keys(remove_net_dict))
    /\ pc' = "by_block"
    /\ UNCHANGED <<input_vars, stage, col, global_net_group_dict,
                   net_group_dict_by_block, subchannel_dict, gaps, stage_vars>>

\* local_routing.run 144
DividedByBlock(r) ==
    /\ pc' = IF r.ok THEN "blockages" ELSE "raised"
    /\ net_group_dict_by_block' = r.by_block

DivideByBlock ==
    /\ pc = "by_block"
    /\ DividedByBlock(divide_nets_by_block(local_net_group_dict, ps))
    /\ col' = 0
    /\ UNCHANGED <<input_vars, stage, global_net_group_dict, local_net_group_dict,
                   unallocatable_net_group_dict, subchannel_dict, gaps, stage_vars>>

\* local_routing.run 147-156: one turn of the loop that builds the sub-channels
Blocked(r) ==
    /\ subchannel_dict' = Append(subchannel_dict, r.ras)
    /\ pc' = IF ~r.ok THEN "raised"
             ELSE IF col + 1 < num_subchannel_cols(ps) THEN "blockages" ELSE "pre"
    /\ col' = IF r.ok /\ col + 1 = num_subchannel_cols(ps) THEN 0 ELSE col + 1

AllocateBlockages ==
    /\ pc = "blockages"
    /\ col < num_subchannel_cols(ps)
    /\ Blocked(blocked_subchannels(ps, col))
    /\ UNCHANGED <<input_vars, stage, dict_vars, gaps, stage_vars>>

\* preprocessing.run, with the areas of the stage made ready
\* (local_routing.run 162-167, global_routing.run 9-17)
Preprocessed(r) ==
    /\ pc' = IF r.ok THEN "bundles" ELSE "raised"
    /\ oids' = r.oids
    /\ bundles' = r.bundles

Preprocess ==
    /\ pc = "pre"
    /\ Preprocessed(preprocessing_run(stage_net_group_dict, ps.shield_width, stage_template))
    /\ ras' = IF stage = "local" THEN subchannel_dict[col + 1] ELSE generate_gaps(ps)
    /\ bundle_idx' = 1
    /\ unallocatable_net_group_names' = <<>>
    /\ UNCHANGED <<input_vars, stage, col, dict_vars, subchannel_dict, gaps, run>>

\* one turn of the loop of greedy_allocate_bundles
BundleAllocated(r) ==
    /\ ras' = r.ras
    /\ unallocatable_net_group_names' = unallocatable_net_group_names \o r.unallocatable
    /\ pc' = IF r.ok THEN "bundles" ELSE "raised"

AllocateBundle ==
    /\ pc = "bundles"
    /\ bundle_idx <= Len(bundles)
    /\ BundleAllocated(allocate_bundle(ras, sort_bundles(bundles)[bundle_idx]))
    /\ bundle_idx' = bundle_idx + 1
    /\ UNCHANGED <<input_vars, stage, col, dict_vars, subchannel_dict, gaps, oids,
                   bundles, run>>

RECURSIVE set_all(_, _, _)
set_all(d, names, src) ==
    IF names = <<>> THEN d
    ELSE set_all(dict_set(d, Head(names), dict_get(src, Head(names))), Tail(names), src)

\* greedy_allocate_bundles returns: local routing records the failed bundles
\* (local_routing.run 186-188), global routing raises on them (global_routing.run 28-29);
\* then the channel algorithm is entered
BundlesDone ==
    /\ pc = "bundles"
    /\ bundle_idx > Len(bundles)
    /\ IF stage = "global" /\ unallocatable_net_group_names # <<>>
       THEN /\ pc' = "raised"
            /\ UNCHANGED <<unallocatable_net_group_dict, run>>
       ELSE /\ pc' = "channel"
            /\ unallocatable_net_group_dict' =
                   IF stage = "local"
                   THEN set_all(unallocatable_net_group_dict, unallocatable_net_group_names,
                                stage_net_group_dict)
                   ELSE unallocatable_net_group_dict
            /\ run' = channel_start(ps.algorithm_name, ps.use_gco, oids, ras)
    /\ UNCHANGED <<input_vars, stage, col, global_net_group_dict, local_net_group_dict,
                   net_group_dict_by_block, subchannel_dict, gaps, ras, oids, bundles,
                   bundle_idx, unallocatable_net_group_names>>

\* a step of the channel algorithm: run moves, the areas follow it
ChannelStep(next_run) ==
    /\ pc = "channel"
    /\ run' = next_run
    /\ ras' = next_run.ras
    /\ pc' = IF next_run.pc = "raised" THEN "raised" ELSE "channel"
    /\ UNCHANGED <<input_vars, stage, col, dict_vars, subchannel_dict, gaps, oids,
                   bundles, bundle_idx, unallocatable_net_group_names>>

\* the outer while takes the next routing area
SelectTarget ==
    /\ run.pc = "outer" /\ ~outer_exit(run)
    /\ ChannelStep(select_target(run))

\* the outer while ends and the algorithm returns
ChannelReturn ==
    /\ run.pc = "outer" /\ outer_exit(run)
    /\ ChannelStep(channel_return(run))

\* left_edge: one turn of the inner while
LeftEdgePass ==
    /\ run.pc = "pass" /\ run.alg = "le"
    /\ ChannelStep(le_pass(run))

\* cap / ccap: a turn of the inner while begins
BeginPass ==
    /\ run.pc = "pass" /\ run.alg # "le"
    /\ ChannelStep(begin_pass(run))

\* cap / ccap: one OID is allocated
Place ==
    /\ run.pc = "scan" /\ candidates(run) # {}
    /\ ChannelStep(place(run))

\* cap / ccap: the turn ends
EndPass ==
    /\ run.pc = "scan" /\ candidates(run) = {}
    /\ ChannelStep(end_pass(run))

\* used + remaining areas, as the callers concatenate them
total_ras(st) == [n \in DOMAIN st.routed_ras |-> st.ras[st.routed_ras[n]]]
                 \o [n \in DOMAIN st.remaining_ras |-> st.ras[st.remaining_ras[n]]]

\* a variant of oid_names that starts at the second OID
oid_names_from_second(os) == [n \in 1..(Len(os) - 1) |-> os[n + 1].name]

oid_names(os) == [n \in DOMAIN os |-> os[n].name]

\* local_routing.run 193-206: the column is closed
CollectColumn ==
    /\ pc = "channel" /\ stage = "local" /\ run.pc = "done"
    /\ unallocatable_net_group_dict' =
           set_all(unallocatable_net_group_dict, oid_names(run.remaining_oids),
                   stage_net_group_dict)
    /\ subchannel_dict' = [subchannel_dict EXCEPT ![col + 1] = total_ras(run)]
    /\ col' = col + 1
    /\ pc' = IF col + 1 < num_subchannel_cols(ps) THEN "pre" ELSE "merge"
    /\ run' = no_run
    /\ ras' = <<>>
    /\ oids' = <<>>
    /\ bundles' = <<>>
    /\ UNCHANGED <<input_vars, stage, global_net_group_dict, local_net_group_dict,
                   net_group_dict_by_block, gaps, bundle_idx,
                   unallocatable_net_group_names>>

\* main.py 108-113: the groups local routing could not place go to global routing
MergeUnallocatable ==
    /\ pc = "merge"
    /\ IF dict_keys(unallocatable_net_group_dict) \cap dict_keys(global_net_group_dict) # {}
       THEN pc' = "raised" /\ UNCHANGED <<global_net_group_dict, stage>>
       ELSE /\ pc' = "pre"
            /\ stage' = "global"
            /\ global_net_group_dict' = global_net_group_dict \o unallocatable_net_group_dict
    /\ UNCHANGED <<input_vars, col, local_net_group_dict, unallocatable_net_group_dict,
                   net_group_dict_by_block, subchannel_dict, gaps, stage_vars>>

\* global_routing.run 39-49: left-over OIDs raise, otherwise the gaps are returned
FinishGlobal ==
    /\ pc = "channel" /\ stage = "global" /\ run.pc = "done"
    /\ IF run.remaining_oids # <<>>
       THEN pc' = "raised" /\ UNCHANGED gaps
       ELSE pc' = "finished" /\ gaps' = total_ras(run)
    /\ UNCHANGED <<input_vars, stage, col, dict_vars, subchannel_dict, stage_vars>>

Next ==
    \/ DivideLocalGlobal
    \/ RemoveUnsplittable
    \/ DivideByBlock
    \/ AllocateBlockages
    \/ Preprocess
    \/ AllocateBundle
    \/ BundlesDone
    \/ SelectTarget
    \/ ChannelReturn
    \/ LeftEdgePass
    \/ BeginPass
    \/ Place
    \/ EndPass
    \/ CollectColumn
    \/ MergeUnallocatable
    \/ FinishGlobal

(***************************************************************************)
(* The inputs.  One blockage column at x in [10, 14) leaves two sub-channel *)
(* columns; sub-channels are 10 wide and gaps 12 wide.  The netlist is any  *)
(* choice of at most MaxGroups groups of GroupPool.                         *)
(***************************************************************************)
MaxGroups == 3

Algorithms ==
    {<<"le", FALSE>>, <<"le", TRUE>>, <<"cap", FALSE>>, <<"cap", TRUE>>, <<"ccap", FALSE>>}

ReservedAreaSets ==
    {<<>>,
     <<[xb |-> 4, xe |-> 6, yb |-> 0, ye |-> 4],
       [xb |-> 16, xe |-> 18, yb |-> 6, ye |-> 15]>>}

Settings(alg, reserved_areas) ==
    [algorithm_name |-> alg[1], use_gco |-> alg[2],
     n_gaps |-> 3, n_subchannels |-> 2, interval |-> 20, y_bottom_blockage |-> 0,
     blockage_x_intervals |-> <<<<10, 14>>>>,
     subchannel_x_intervals |-> <<<<0, 10>>, <<14, 24>>>>,
     gap_width |-> 12, shield_width |-> 1, subchannel_width |-> 10,
     reserved_areas |-> reserved_areas]

\* a two-pin net of group g
Net2(g, k, width, space, x1, x2, y, shield_type) ==
    Net(<<g, k>>, width, space, <<<<x1, y>>, <<x2, y>>>>, shield_type)

Group(g, nl) == [name |-> g, nl |-> nl]

GroupPool ==
    << Group("Q", <<Net2("Q", 0, 40, 2, 8, 16, 18, "")>>),
       Group("B", <<Net2("B", 0, 4, 2, 1, 3, 23, "")>>),
       Group("C", <<Net2("C", 0, 2, 0, 3, 6, 3, "")>>),
       Group("E", <<Net2("E", 0, 1, 2, 2, 4, 3, "")>>),
       Group("F", <<Net2("F", 0, 1, 2, 3, 6, 23, "")>>),
       Group("W", <<Net2("W", 0, 4, 2, 0, 4, 3, ""), Net2("W", 1, 4, 2, 0, 4, 23, "")>>),
       Group("S", <<Net2("S", 0, 2, 1, 6, 9, 3, "S")>>),
       Group("G", <<Net2("G", 0, 1, 1, 5, 7, 3, "GS"), Net2("G", 1, 1, 1, 6, 8, 3, "GS")>>),
       Group("K", <<Net2("K", 0, 1, 1, 6, 8, 3, ""), Net2("K", 1, 1, 1, 7, 9, 3, "S")>>),
       Group("M", <<Net2("M", 0, 2, 2, 0, 2, 23, ""), Net2("M", 1, 4, 2, 7, 9, 23, "")>>),
       Group("X", <<Net2("X", 0, 12, 2, 5, 8, 23, "")>>),
       Group("T", <<Net2("T", 0, 16, 2, 1, 5, 40, "")>>),
       Group("U", <<Net2("U", 0, 2, 5, 2, 5, 3, "")>>),
       Group("N", <<Net2("N", 0, 2, 2, 6, 10, 3, "")>>),
       Group("H", <<Net2("H", 0, 2, 2, 15, 18, 23, "")>>),
       Group("P", <<Net2("P", 0, 2, 2, 8, 16, 18, "")>>),
       Group("R", <<Net2("R", 0, 6, 2, 9, 15, 18, ""), Net2("R", 1, 6, 2, 9, 15, 38, "")>>),
       Group("Z", <<Net2("Z", 0, 2, 2, 1, 3, 3, ""), Net2("Z", 1, 2, 2, 8, 12, 3, "")>>),
       Group("I", <<Net2("I", 0, 3, 2, 0, 4, 3, "")>>),
       Group("J", <<Net2("J", 0, 6, 0, 6, 9, 3, "")>>),
       Group("L", <<Net2("L", 0, 1, 2, 0, 4, 3, ""), Net2("L", 1, 1, 2, 6, 9, 3, "")>>) >>

Netlists ==
    {SelectSeq([i \in DOMAIN GroupPool |-> i], LAMBDA i : i \in S) :
        S \in {T \in SUBSET DOMAIN GroupPool : Cardinality(T) <= MaxGroups}}

Init ==
    /\ \E alg \in Algorithms, rs \in ReservedAreaSets : ps = Settings(alg, rs)
    /\ \E idx \in Netlists : netlist_dict = [n \in DOMAIN idx |-> GroupPool[idx[n]]]
    /\ area = generate_subchannel(ps)
    /\ call = no_call
    /\ pc = "start"
    /\ stage = "local"
    /\ col = 0
    /\ global_net_group_dict = <<>>
    /\ local_net_group_dict = <<>>
    /\ unallocatable_net_group_dict = <<>>
    /\ net_group_dict_by_block = <<>>
    /\ subchannel_dict = <<>>
    /\ gaps = <<>>
    /\ ras = <<>>
    /\ oids = <<>>
    /\ bundles = <<>>
    /\ bundle_idx = 1
    /\ unallocatable_net_group_names = <<>>
    /\ run = no_run

Spec == Init /\ [][Next]_vars

(***************************************************************************)
(* Properties of the routing areas.                                        *)
(***************************************************************************)
\* every routing area the program holds: the sub-channels of the columns, the
\* returned gaps, and the areas of the stage in progress
all_areas == Flatten(subchannel_dict) \o gaps \o ras

x_overlap(a, b) == overlaps(a.data.xb, a.data.xe, b.data.xb, b.data.xe)

y_overlap(a, b) == overlaps(a.offset, y_max(a), b.offset, y_max(b))

no_y_overlap(allocs) ==
    \A i, j \in DOMAIN allocs :
        i < j /\ x_overlap(allocs[i], allocs[j]) => ~y_overlap(allocs[i], allocs[j])

\* C1: in every routing area, after any sequence of successful placements, no two
\* allocations whose x-intervals overlap have overlapping y-intervals
\* [offset, offset + width).
C1_NoOverlap == \A n \in DOMAIN all_areas : no_y_overlap(allocations(all_areas[n]))

kinds_stacked(allocs) ==
    /\ \E i, j \in DOMAIN allocs :
           /\ allocs[i].data.kind = "Blockage" /\ allocs[j].data.kind = "Net"
           /\ x_overlap(allocs[i], allocs[j])
    /\ \E i, j \in DOMAIN allocs :
           /\ allocs[i].data.kind = "Shield" /\ allocs[j].data.kind = "Net"
           /\ x_overlap(allocs[i], allocs[j])

\* C1 witness: an area holds a net that x-overlaps a blockage, and a net that
\* x-overlaps a shield
C1_Witness == \E n \in DOMAIN all_areas : kinds_stacked(allocations(all_areas[n]))

spaced(a, b) ==
    (x_overlap(a, b) /\ y_max(a) <= y_min(b))
        => y_min(b) - y_max(a) >= Max(a.data.us, b.data.ls)

all_spaced(allocs) == \A i, j \in DOMAIN allocs : i # j => spaced(allocs[i], allocs[j])

\* C2: for any two x-overlapping allocations a below b of one routing area,
\* b.y_min - a.y_max >= max(a.upper_space, b.lower_space).
C2_Spacing == \A n \in DOMAIN all_areas : all_spaced(allocations(all_areas[n]))

inside(allocs, width) == \A i \in DOMAIN allocs : 0 <= y_min(allocs[i]) /\ y_max(allocs[i]) <= width

\* C3: every allocation a routing area holds, blockages and the elements of a
\* group-shielded stack included, lies inside the area: 0 <= y_min and
\* y_max <= area.width.
C3_InsideArea == \A n \in DOMAIN all_areas : inside(allocations(all_areas[n]), all_areas[n].width)

clipped_and_used(allocs, width) ==
    \E i, j \in DOMAIN allocs :
        /\ allocs[i].data.kind = "Blockage" /\ y_max(allocs[i]) = width
        /\ allocs[j].data.kind = "Net" /\ x_overlap(allocs[i], allocs[j])

group_stack(ra) ==
    \E i \in DOMAIN ra.x_iv_tree : ra.x_iv_tree[i].data.kind = "ShieldedNetList"

\* C3 witness: an area holds a blockage clipped at the top of the area with a net
\* under it, and an area holds a group-shielded stack
C3_Witness ==
    /\ \E n \in DOMAIN all_areas : clipped_and_used(allocations(all_areas[n]), all_areas[n].width)
    /\ \E n \in DOMAIN all_areas : group_stack(all_areas[n])

(***************************************************************************)
(* Properties of the channel algorithms.                                   *)
(***************************************************************************)
\* a channel algorithm has returned: run.ras are its areas, oids its input
Returned == pc = "channel" /\ run.pc = "done"

\* the places <<area, index>> of areas where a net called name is allocated
places_among(areas, name, all) ==
    {p \in all : /\ allocations(areas[p[1]])[p[2]].data.kind = "Net"
                 /\ allocations(areas[p[1]])[p[2]].data.name = name}

places(areas, name) ==
    places_among(areas, name,
                 UNION {{<<n, i>> : i \in DOMAIN allocations(areas[n])} : n \in DOMAIN areas})

net_names(nl) == {nl[i].name : i \in {i \in DOMAIN nl : nl[i].kind = "Net"}}

\* every net once, and all of them in one area
allocated_once(areas, names) ==
    /\ \A nm \in names : Cardinality(places(areas, nm)) = 1
    /\ Cardinality({p[1] : p \in UNION {places(areas, nm) : nm \in names}}) = 1

allocated_nowhere(areas, names) == \A nm \in names : places(areas, nm) = {}

oid_settled(areas, oid, remaining) ==
    IF \E k \in DOMAIN remaining : remaining[k].name = oid.name
    THEN allocated_nowhere(areas, net_names(oid_total_netlist(oid)))
    ELSE allocated_once(areas, net_names(oid_total_netlist(oid)))

\* C4: when left_edge, cap or ccap returns, every input OID is either allocated
\* in exactly one routing area, each of its nets in exactly one allocation, or
\* is in the returned remaining_oids; never both and never neither.
C4_PlacedOrRemaining ==
    Returned => \A k \in DOMAIN oids : oid_settled(run.ras, oids[k], run.remaining_oids)

\* C4 witness: a run returns with some input OIDs allocated and some remaining
C4_Witness ==
    /\ Returned
    /\ run.remaining_oids # <<>>
    /\ Len(run.remaining_oids) < Len(oids)
    /\ run.alg # "le"

(***************************************************************************)
(* Properties of two_step_routing.                                         *)
(***************************************************************************)
\* some allocation of areas is the net n or a component trunk_division made of it
net_in(areas, n) ==
    \E r \in DOMAIN areas : \E i \in DOMAIN allocations(areas[r]) :
        /\ allocations(areas[r])[i].data.kind = "Net"
        /\ SubSeq(allocations(areas[r])[i].data.name, 1, 2) = n.name

\* where the net n is allocated: the columns (1-based) holding it, and 0 for the gaps
locations(n) ==
    {c \in DOMAIN subchannel_dict : net_in(subchannel_dict[c], n)}
    \cup (IF net_in(gaps, n) THEN {0} ELSE {})

group_locations(nl) == UNION {locations(nl[i]) : i \in DOMAIN nl}

one_stage(g) ==
    /\ \A i \in DOMAIN g.nl : locations(g.nl[i]) # {}
    /\ Cardinality(group_locations(g.nl)) = 1
    /\ g.name \in dict_keys(unallocatable_net_group_dict)
           => group_locations(g.nl) = {0} /\ g.name \in dict_keys(global_net_group_dict)

\* C5: when two_step_routing completes, every input net group is allocated in
\* exactly one stage, the sub-channels of one column or the gaps, and a group
\* local routing reported unallocatable is in the gaps only, handed to global
\* routing.
C5_OneStage == pc = "finished" => \A k \in DOMAIN netlist_dict : one_stage(netlist_dict[k])

\* C5 witness: a completed run with a group routed locally, a group demoted by
\* local routing, and a group that was global from the start
C5_Witness ==
    /\ pc = "finished"
    /\ unallocatable_net_group_dict # <<>>
    /\ \E k \in DOMAIN netlist_dict : 0 \notin group_locations(netlist_dict[k].nl)
    /\ \E k \in DOMAIN netlist_dict :
           /\ netlist_dict[k].name \in dict_keys(global_net_group_dict)
           /\ netlist_dict[k].name \notin dict_keys(unallocatable_net_group_dict)

fits_nowhere(areas, oid) == \A r \in DOMAIN areas : ~allocatable(areas[r], oid, None)

\* C6: when left_edge, cap or ccap returns, no OID of remaining_oids is
\* allocatable, under the full-width ceiling, in any of the routing areas given.
C6_RemainingFitNowhere ==
    Returned => \A k \in DOMAIN run.remaining_oids : fits_nowhere(run.ras, run.remaining_oids[k])

\* the same for left_edge alone
C6_LeftEdge == run.alg = "le" => C6_RemainingFitNowhere

(***************************************************************************)
(* Properties of greedy_allocate_bundles.                                  *)
(***************************************************************************)
\* every net of the OID is allocated in the area
oid_in(ra, oid) ==
    \A nm \in net_names(oid_total_netlist(oid)) :
        \E i \in DOMAIN allocations(ra) :
            /\ allocations(ra)[i].data.kind = "Net"
            /\ allocations(ra)[i].data.name = nm

\* the components of b are in the window of areas that starts at i
committed_at(rs, b, i) ==
    /\ i + Len(b.data) - 1 <= Len(rs)
    /\ \A j \in DOMAIN b.data : oid_in(rs[i + j - 1], b.data[j])

committed(rs, b) == \E i \in DOMAIN rs : committed_at(rs, b, i)

reported(names, b) == \E k \in DOMAIN names : names[k] = b.name

\* the window starts at which every component is allocatable in its area
feasible(rs, b) ==
    {i \in 1..(Len(rs) - Len(b.data) + 1) :
        \A j \in DOMAIN b.data : allocatable(rs[i + j - 1], b.data[j], None)}

wl(rs, b, i) ==
    vertical_wirelength_with_multi_y(b, [j \in DOMAIN b.data |-> rs[i + j - 1].height])

\* the feasible windows of least wirelength, and of these the lowest start
least(rs, b, F) ==
    {i \in F : \A m \in F : wl(rs, b, i) < wl(rs, b, m)
                            \/ (wl(rs, b, i) = wl(rs, b, m) /\ i <= m)}

\* a turn of the loop of greedy_allocate_bundles is taken
BundleTurn == pc = "bundles" /\ pc' = "bundles" /\ bundle_idx' = bundle_idx + 1

\* the bundles not yet taken, by position in bundles
pending == {k \in DOMAIN bundles : /\ ~committed(ras, bundles[k])
                                   /\ ~reported(unallocatable_net_group_names, bundles[k])}

taken(k) == committed(ras', bundles[k]) \/ reported(unallocatable_net_group_names', bundles[k])

best_window_taken(rs, rs2, b) == \A i \in least(rs, b, feasible(rs, b)) : committed_at(rs2, b, i)

most_pins(b, rest) == \A k \in rest : Len(bundle_pins(bundles[k])) <= Len(bundle_pins(b))

\* C7: the bundle taken at a turn has the most pins of the bundles not yet taken,
\* and is committed to the feasible window of least
\* vertical_wirelength_with_multi_y, the lowest start among equals.
C7_BestWindow ==
    [][BundleTurn =>
          \A k \in pending :
              taken(k) => /\ most_pins(bundles[k], pending)
                          /\ best_window_taken(ras, ras', bundles[k])]_vars

only_holds(rs, b) ==
    \A r \in DOMAIN rs : \A i \in DOMAIN allocations(rs[r]) :
        allocations(rs[r])[i].data.name[1] = b.name

tie_committed(rs0, rs, b) ==
    /\ {1, 2} \subseteq feasible(rs0, b)
    /\ wl(rs0, b, 1) = wl(rs0, b, 2)
    /\ 1 \in least(rs0, b, feasible(rs0, b))
    /\ committed_at(rs, b, 1)
    /\ only_holds(rs, b)

\* C7 witness: in the gaps, after a bundle of more pins has been taken, a bundle
\* has been committed to the first of two feasible windows of equal least
\* wirelength
C7_Witness ==
    /\ pc = "bundles" /\ stage = "global"
    /\ \E k \in DOMAIN bundles :
           /\ tie_committed(generate_gaps(ps), ras, bundles[k])
           /\ \E m \in DOMAIN bundles :
                  /\ reported(unallocatable_net_group_names, bundles[m])
                  /\ Len(bundle_pins(bundles[m])) > Len(bundle_pins(bundles[k]))

reported_iff_infeasible(rs, rs2, names2, b) ==
    /\ reported(names2, b) <=> feasible(rs, b) = {}
    /\ feasible(rs, b) # {} => committed(rs2, b)

\* C8: at every turn one bundle is taken, and its name is put in the
\* unallocatable list if and only if no window was feasible for it; a bundle
\* with a feasible window is committed.
C8_ReportedIffInfeasible ==
    [][BundleTurn =>
          /\ \E k \in pending : taken(k)
          /\ \A k \in pending :
                 taken(k) => reported_iff_infeasible(ras, ras', unallocatable_net_group_names',
                                                     bundles[k])]_vars

\* C8 witness: the loop has reported a bundle with more components than there
\* are areas, and has committed another
C8_Witness ==
    /\ pc = "bundles"
    /\ \E k \in DOMAIN bundles : /\ reported(unallocatable_net_group_names, bundles[k])
                                 /\ Len(bundles[k].data) > Len(ras)
    /\ \E k \in DOMAIN bundles : committed(ras, bundles[k])

(***************************************************************************)
(* Properties of the division of the nets.                                 *)
(***************************************************************************)
\* the half-open x-interval of net n overlaps that of some blockage
crosses(n) ==
    \E k \in DOMAIN ps.blockage_x_intervals :
        n.xb < ps.blockage_x_intervals[k][2] /\ ps.blockage_x_intervals[k][1] < n.xe

all_cross(nl) == \A i \in DOMAIN nl : crosses(nl[i])

none_cross(nl) == \A i \in DOMAIN nl : ~crosses(nl[i])

is_in(d, g) == \E k \in DOMAIN d : d[k] = g

partitioned(g) ==
    /\ is_in(global_net_group_dict, g) <=> all_cross(g.nl)
    /\ is_in(local_net_group_dict, g) <=> none_cross(g.nl)
    /\ is_in(global_net_group_dict, g) # is_in(local_net_group_dict, g)

some_mixed == \E k \in DOMAIN netlist_dict :
                  ~all_cross(netlist_dict[k].nl) /\ ~none_cross(netlist_dict[k].nl)

\* C9: divide_nets_into_local_or_global puts every group in exactly one of the
\* two maps, global iff every net of it overlaps a blockage x-interval, local iff
\* none does; with a group of both kinds it raises and gives no maps.
C9_Partition ==
    /\ pc = "filter" => \A k \in DOMAIN netlist_dict : partitioned(netlist_dict[k])
    /\ pc = "filter" => ~some_mixed
    /\ some_mixed => /\ pc \in {"start", "raised"}
                     /\ global_net_group_dict = <<>> /\ local_net_group_dict = <<>>

touches(n) == \E k \in DOMAIN ps.blockage_x_intervals : n.xe = ps.blockage_x_intervals[k][1]

\* C9 witness: the call has returned a global map and a local map, the local one
\* with a net that ends where a blockage begins
C9_Witness ==
    /\ pc = "filter"
    /\ global_net_group_dict # <<>>
    /\ \E k \in DOMAIN local_net_group_dict : touches(local_net_group_dict[k].nl[1])

\* divide_nets_by_block has just returned
DividedInColumns == pc = "blockages" /\ subchannel_dict = <<>>

\* net n lies right of blockage c - 1 and left of blockage c (c counted from 0)
lies_in_column(n, c) ==
    /\ c = 0 \/ ps.blockage_x_intervals[c][2] <= n.xb
    /\ c = Len(ps.blockage_x_intervals) \/ n.xe <= ps.blockage_x_intervals[c + 1][1]

in_its_column(g) ==
    \A c \in 0..Len(ps.blockage_x_intervals) :
        is_in(net_group_dict_by_block[c + 1], g)
            <=> \A i \in DOMAIN g.nl : lies_in_column(g.nl[i], c)

\* C10: divide_nets_by_block files every local net under the column in which it
\* lies, a net whose x_max equals a blockage's x_min included, and every column
\* it produces is a column local routing routes.
C10_ColumnOfNet ==
    DividedInColumns =>
        /\ Len(net_group_dict_by_block) = num_subchannel_cols(ps)
        /\ \A k \in DOMAIN local_net_group_dict : in_its_column(local_net_group_dict[k])

\* the same, for the groups none of whose nets ends where a blockage begins
C10_ColumnOfNetApart ==
    DividedInColumns =>
        \A k \in DOMAIN local_net_group_dict :
            (\A i \in DOMAIN local_net_group_dict[k].nl : ~touches(local_net_group_dict[k].nl[i]))
                => in_its_column(local_net_group_dict[k])

(***************************************************************************)
(* The containers and the pure functions of preprocessing and algorithms,  *)
(* called by themselves.  call holds the arguments; the step that makes    *)
(* the call puts the result beside them.                                    *)
(***************************************************************************)
MaxNets == 3

MaxWidth == 12

\* the x-intervals a net is drawn from: overlapping, nested, touching, apart
XIntervals == {<<0, 4>>, <<3, 8>>, <<7, 10>>, <<4, 6>>, <<2, 4>>, <<8, 10>>}

ShieldTypes == {"", "S", "GS"}

\* the netlists of 1..MaxNets nets, net k having shape[k] = <<x-interval, space, type>>
NetOfShape(k, shape, width) ==
    Net2("n", k - 1, width, shape[2], shape[1][1], shape[1][2], 3, shape[3])

NetlistOfShapes(shapes, width) == [k \in DOMAIN shapes |-> NetOfShape(k, shapes[k], width)]

ShapeLists(Shapes) == UNION {[1..k -> Shapes] : k \in 1..MaxNets}

\* the x-interval that encloses the nets of nl
hull(nl) == <<SeqMin([k \in DOMAIN nl |-> nl[k].xb]), SeqMax([k \in DOMAIN nl |-> nl[k].xe])>>

\* the program's state while the kernel is called by itself
Idle ==
    /\ ps = Settings(<<"le", FALSE>>, <<>>)
    /\ netlist_dict = <<>>
    /\ pc = "kernel"
    /\ stage = "local"
    /\ col = 0
    /\ global_net_group_dict = <<>>
    /\ local_net_group_dict = <<>>
    /\ unallocatable_net_group_dict = <<>>
    /\ net_group_dict_by_block = <<>>
    /\ subchannel_dict = <<>>
    /\ gaps = <<>>
    /\ ras = <<>>
    /\ oids = <<>>
    /\ bundles = <<>>
    /\ bundle_idx = 1
    /\ unallocatable_net_group_names = <<>>
    /\ run = no_run

program_vars == <<ps, netlist_dict, pc, stage, col, dict_vars, subchannel_dict, gaps,
                  stage_vars>>

\* ShieldedNetList(netlist, x_interval, shield_width) of nets of one shield type
ShieldedNetListInputs ==
    {[op |-> "ShieldedNetList", done |-> FALSE,
      netlist |-> NetlistOfShapes([k \in DOMAIN xs |-> <<xs[k][1], xs[k][2], st>>], 1),
      shield_width |-> 1, ret |-> <<>>] :
        xs \in ShapeLists(XIntervals \X {1, 2}), st \in ShieldTypes}

\* OverlappedIntervalDict(name, netlist, shield_width), the shield types mixed
OverlappedIntervalDictInputs ==
    {[op |-> "OverlappedIntervalDict", done |-> FALSE,
      netlist |-> NetlistOfShapes([k \in DOMAIN xs |-> <<xs[k][1], 1, xs[k][2]>>], 1),
      shield_width |-> 1, ret |-> <<>>] :
        xs \in ShapeLists(XIntervals \X {"", "S"})}

\* max_density_zones(oids), every OID being one net
MaxDensityZonesInputs ==
    {[op |-> "max_density_zones", done |-> FALSE,
      oids |-> [k \in DOMAIN xs |->
                   generate_overlapped_interval_dict(
                       <<NetOfShape(k, <<xs[k][1], 1, "">>, xs[k][2])>>, 1)],
      ret |-> <<>>] :
        xs \in ShapeLists(XIntervals \X {1, 2})}

\* trunk_division(net, shield_width, routing_area_width)
TrunkDivisionInputs ==
    {[op |-> "trunk_division", done |-> FALSE,
      net |-> Net2("n", 0, w, sp, 2, 5, 3, st),
      shield_width |-> sw, routing_area_width |-> aw, ret |-> <<>>] :
        w \in 1..MaxWidth, sp \in 0..3, st \in ShieldTypes, sw \in {1, 2}, aw \in {6, 10}}

\* the netlists of a net group: nets over one of two x-intervals that overlap,
\* narrow, wide, or too wide for an area by themselves
GroupNetlists ==
    {[k \in DOMAIN xs |-> Net2("n", k - 1, xs[k][2], 1, xs[k][1][1], xs[k][1][2], 3, xs[k][3])] :
        xs \in ShapeLists({<<0, 4>>, <<3, 8>>} \X {2, 5, MaxWidth} \X {"", "S"})}

\* grouping(netlist, problem_settings, routing_area), the area being empty
GroupingInputs ==
    {[op |-> "grouping", done |-> FALSE, netlist |-> nl, shield_width |-> 1,
      routing_area |-> RoutingArea(None, aw, None), ret |-> <<>>] :
        nl \in GroupNetlists, aw \in {10}}

\* preprocessing.run(net_group_dict, problem_settings, routing_area) of one group
PreprocessingInputs ==
    {[op |-> "run", done |-> FALSE, net_group_dict |-> <<Group("n", nl)>>,
      shield_width |-> 1, routing_area |-> RoutingArea(None, aw, None), ret |-> <<>>] :
        nl \in GroupNetlists, aw \in {10}}

InitFn ==
    /\ Idle
    /\ area = generate_subchannel(ps)
    /\ \/ call \in ShieldedNetListInputs
       \/ call \in OverlappedIntervalDictInputs
       \/ call \in MaxDensityZonesInputs
       \/ call \in TrunkDivisionInputs
       \/ call \in GroupingInputs
       \/ call \in PreprocessingInputs

Returns(op, ret) ==
    /\ call.op = op
    /\ ~call.done
    /\ call' = [call EXCEPT !.done = TRUE, !.ret = ret]
    /\ UNCHANGED <<area, program_vars>>

ShieldedNetListCall ==
    /\ call.op = "ShieldedNetList"
    /\ Returns("ShieldedNetList",
               ShieldedNetList(call.netlist, hull(call.netlist)[1], hull(call.netlist)[2],
                               call.shield_width))

OverlappedIntervalDictCall ==
    /\ call.op = "OverlappedIntervalDict"
    /\ Returns("OverlappedIntervalDict",
               OverlappedIntervalDict("n", call.netlist, call.shield_width))

MaxDensityZonesCall ==
    /\ call.op = "max_density_zones"
    /\ Returns("max_density_zones", max_density_zones(call.oids))

TrunkDivisionCall ==
    /\ call.op = "trunk_division"
    /\ Returns("trunk_division",
               trunk_division(call.net, call.shield_width, call.routing_area_width))

GroupingCall ==
    /\ call.op = "grouping"
    /\ Returns("grouping", grouping(call.netlist, call.shield_width, call.routing_area))

PreprocessingRunCall ==
    /\ call.op = "run"
    /\ Returns("run", preprocessing_run(call.net_group_dict, call.shield_width,
                                        call.routing_area))

NextFn ==
    \/ ShieldedNetListCall
    \/ OverlappedIntervalDictCall
    \/ MaxDensityZonesCall
    \/ TrunkDivisionCall
    \/ GroupingCall
    \/ PreprocessingRunCall

FnSpec == InitFn /\ [][NextFn]_vars

(***************************************************************************)
(* A RoutingArea called by itself: allocate with nets, blockages, lists    *)
(* and OIDs under any ceiling, and the queries get_offset,                 *)
(* get_ceiling_space and allocations, on an area ten wide.                 *)
(***************************************************************************)
MaxAllocs == 2

\* a net of the area under test
AreaNet(k, width, space, x1, x2, shield_type) ==
    Net2("a", k, width, space, x1, x2, 3, shield_type)

AreaNets ==
    {AreaNet(0, 2, 1, 0, 4, ""), AreaNet(1, 1, 2, 3, 8, ""),
     AreaNet(2, 2, 0, 7, 10, ""), AreaNet(3, 1, 1, 0, 10, "")}

AreaBlockages ==
    {Blockage(2, 6, 4, 6), Blockage(5, 9, 0, 4), Blockage(0, 10, 1, 2)}

\* three nets that overlap in a chain, of one shield type, in the order given
Chain(st, order) ==
    LET n == <<AreaNet(4, 1, 1, 0, 4, st), AreaNet(5, 1, 1, 3, 8, st),
               AreaNet(6, 1, 1, 7, 10, st)>>
    IN  [k \in DOMAIN order |-> n[order[k]]]

AreaOids ==
    {OverlappedIntervalDict("a", Chain("", <<1, 3, 2>>), 1),
     OverlappedIntervalDict("a", Chain("S", <<1, 2, 3>>), 1),
     OverlappedIntervalDict("a", <<AreaNet(7, 1, 1, 1, 5, "GS"),
                                   AreaNet(8, 2, 1, 4, 9, "GS")>>, 1),
     OverlappedIntervalDict("a", <<AreaNet(9, 1, 1, 6, 8, ""),
                                   AreaNet(10, 1, 1, 7, 9, "S")>>, 1),
     OverlappedIntervalDict("a", <<AreaNet(13, 1, 0, 0, 5, "GS"),
                                   AreaNet(14, 1, 1, 4, 7, "GS")>>, 1)}

AreaLists ==
    {<<AreaNet(11, 1, 1, 2, 6, ""), AreaNet(12, 2, 1, 5, 9, "")>>,
     <<AreaNet(11, 2, 1, 0, 4, ""), AreaNet(12, 1, 1, 6, 9, "")>>}

Ceilings == {None, 3, 5, 6, 8}

QueryCeilings == {None} \cup 0..10

QueryXIntervals == {<<0, 4>>, <<3, 8>>, <<0, 10>>}

InitArea ==
    /\ Idle
    /\ area = generate_subchannel(ps)
    /\ call = no_call

\* allocate(o, ceiling) has returned or raised as r says; a Blockage that is
\* refused still leaves its two ceilings in init_ceilings
Allocated(kind, o, ceiling, r) ==
    /\ Len(area.x_iv_tree) < MaxAllocs
    /\ Len(area.init_ceilings) < 2 * MaxAllocs
    /\ call' = [op |-> "allocate", done |-> TRUE, kind |-> kind, o |-> o,
                ceiling |-> ceiling, before |-> area, ok |-> r.ok, ret |-> r.ret]
    /\ area' = r.ra
    /\ UNCHANGED program_vars

\* a query has returned ret; it is made on the area as an allocate has left it
Queried(q, ret) ==
    /\ call.op \in {"none", "allocate"}
    /\ call' = [q EXCEPT !.ret = ret]
    /\ UNCHANGED <<area, program_vars>>

AllocateNetCall ==
    \E n \in AreaNets, c \in Ceilings : Allocated("Net", n, c, allocate_net(area, n, c))

AllocateBlockageCall ==
    \E b \in AreaBlockages : Allocated("Blockage", b, None, allocate(area, b))

AllocateListCall ==
    \E nl \in AreaLists, c \in Ceilings :
        Allocated("list", [kind |-> "list", data |-> nl], c, allocate_netlist(area, nl, c))

AllocateOidCall ==
    \E oid \in AreaOids, c \in Ceilings :
        Allocated("OverlappedIntervalDict", oid, c,
                  allocate_overlappedintervaldict(area, oid, c))

GetOffsetCall ==
    \E n \in AreaNets, c \in QueryCeilings :
        Queried([op |-> "get_offset", done |-> TRUE, alc |-> n, ceiling |-> c, ret |-> None],
                get_offset(area, n, c))

GetCeilingSpaceCall ==
    \E x \in QueryXIntervals, c \in 0..10 :
        Queried([op |-> "get_ceiling_space", done |-> TRUE, xb |-> x[1], xe |-> x[2],
                 ceiling |-> c, ret |-> None],
                get_ceiling_space(area, c, x[1], x[2]))

AllocationsCall ==
    Queried([op |-> "allocations", done |-> TRUE, ret |-> <<>>], allocations(area))

NextArea ==
    \/ AllocateNetCall
    \/ AllocateBlockageCall
    \/ AllocateListCall
    \/ AllocateOidCall
    \/ GetOffsetCall
    \/ GetCeilingSpaceCall
    \/ AllocationsCall

AreaSpec == InitArea /\ [][NextArea]_vars

(***************************************************************************)
(* Properties of the containers.                                           *)
(***************************************************************************)
\* the call op has been made
Called(op) == call.op = op /\ call.done

shields_of(data) == SelectSeq(data, LAMBDA e : e.kind = "Shield")

\* shield, net_0, shield, net_1, ..., net_(k-1), shield
interleaved(nl, data) ==
    /\ Len(data) = 2 * Len(nl) + 1
    /\ \A i \in 1..(Len(nl) + 1) : data[2 * i - 1].kind = "Shield"
    /\ \A i \in DOMAIN nl : data[2 * i] = nl[i]
    /\ Len(shields_of(data)) = Len(nl) + 1

\* shield, the nets unchanged, shield
enclosed(nl, data) ==
    /\ Len(data) = Len(nl) + 2
    /\ data[1].kind = "Shield" /\ data[Len(data)].kind = "Shield"
    /\ SubSeq(data, 2, Len(nl) + 1) = nl
    /\ Len(shields_of(data)) = 2

\* C11: a ShieldedNetList of k >= 1 nets of one per-net shield type is
\* shield, net_0, shield, ..., net_(k-1), shield with k+1 shields and the nets in
\* input order; of a group shield type it is the unchanged nets between exactly
\* two shields; of nets that need no shield it is the input list.
C11_ShieldCount ==
    Called("ShieldedNetList") =>
        IF call.netlist[1].st = "" THEN call.ret.data = call.netlist
        ELSE IF call.netlist[1].st \in {"G", "GS"}
             THEN enclosed(call.netlist, call.ret.data)
             ELSE interleaved(call.netlist, call.ret.data)

\* three nets of a per-net shield type have been stacked with four shields
C11_Witness ==
    /\ Called("ShieldedNetList")
    /\ call.netlist[1].st = "S"
    /\ Len(call.netlist) = 3
    /\ Len(shields_of(call.ret.data)) = 4

same_x(s, xb, xe) == s.xb = xb /\ s.xe = xe

\* the shield under net i of nl spans net i and, if there is one, the net below it
spans_neighbours(nl, data, i) ==
    IF i = 1 THEN same_x(data[1], nl[1].xb, nl[1].xe)
    ELSE same_x(data[2 * i - 1], Min(nl[i - 1].xb, nl[i].xb), Max(nl[i - 1].xe, nl[i].xe))

per_net_shielded == Called("ShieldedNetList") /\ call.netlist[1].st = "S"

\* C12: in a per-net-shielded ShieldedNetList the x-interval of every shield is
\* the union of the x-intervals of the nets next to it in the stack: of the two
\* nets around a shield between nets, of the first net for the bottom shield and
\* of the last net for the top shield.
C12_ShieldSpansNeighbours ==
    per_net_shielded =>
        /\ \A i \in DOMAIN call.netlist : spans_neighbours(call.netlist, call.ret.data, i)
        /\ same_x(Last(call.ret.data), Last(call.netlist).xb, Last(call.netlist).xe)

\* the top shield alone does have the x-interval of the last net
C12_TopShield ==
    per_net_shielded => same_x(Last(call.ret.data), Last(call.netlist).xb, Last(call.netlist).xe)

(***************************************************************************)
(* Properties of max_density_zones.  Points are doubled, so that the       *)
(* midpoint of [b, e) is the integer b + e.                                *)
(***************************************************************************)
endpoints(os) == ascending({os[i].xb : i \in DOMAIN os} \cup {os[i].xe : i \in DOMAIN os})

\* the midpoints of the input x-intervals and of the segments between endpoints
midpoints2(os) ==
    {os[i].xb + os[i].xe : i \in DOMAIN os}
    \cup {endpoints(os)[n] + endpoints(os)[n + 1] : n \in 1..(Len(endpoints(os)) - 1)}

\* the sum of the widths of the OIDs whose x-interval holds the point
density_at2(os, m2) ==
    SeqSum([i \in DOMAIN os |-> IF 2 * os[i].xb <= m2 /\ m2 < 2 * os[i].xe THEN os[i].w ELSE 0])

greatest_density(os) ==
    CHOOSE d \in {density_at2(os, m2) : m2 \in midpoints2(os)} :
        \A m2 \in midpoints2(os) : density_at2(os, m2) <= d

in_zone2(zones, m2) == \E n \in DOMAIN zones : 2 * zones[n][1] <= m2 /\ m2 < 2 * zones[n][2]

brute_force(os, r) ==
    /\ r.max_density = greatest_density(os)
    /\ \A m2 \in midpoints2(os) :
          in_zone2(r.zones, m2) <=> density_at2(os, m2) = greatest_density(os)

\* C13: max_density_zones agrees with brute force: the maximum returned is the
\* greatest sum of widths of the OIDs over one x, and the midpoint of every
\* input x-interval and of every segment between consecutive endpoints lies in
\* a returned zone iff the density there is that maximum.
C13_DensityBruteForce == Called("max_density_zones") => brute_force(call.oids, call.ret)

(***************************************************************************)
(* Properties of trunk_division.                                           *)
(***************************************************************************)
\* the children are net cut into parts of max_w and a last part of what is left
children_of(net, nl, max_w) ==
    /\ SeqSum([i \in DOMAIN nl |-> nl[i].w]) = net.w
    /\ \A i \in DOMAIN nl : 0 < nl[i].w /\ nl[i].w <= max_w
    /\ \A i \in 1..(Len(nl) - 1) : nl[i].w = max_w
    /\ (Len(nl) - 1) * max_w < net.w
    /\ \A i \in DOMAIN nl :
          /\ nl[i].name = Append(net.name, i - 1)
          /\ nl[i].us = net.us /\ nl[i].ls = net.ls
          /\ nl[i].st = net.st /\ nl[i].pins = net.pins

divides_under(max_w) ==
    IF max_w <= 0 THEN ~call.ret.ok
    ELSE call.ret.ok /\ children_of(call.net, call.ret.nl, max_w)

\* C14, as the claim states it: max_w = area_w - 2*space - (2*shield_w if the
\* net requires a shield, else 0); the call raises when max_w <= 0 and otherwise
\* returns the children {name}_c{i} of widths divide_width(net.width, max_w).
C14_MaxWidthAsStated ==
    Called("trunk_division") =>
        divides_under(call.routing_area_width - 2 * call.net.us
                      - (IF call.net.st # "" THEN 2 * call.shield_width ELSE 0))

\* C14, amended: a net that requires a shield leaves room for four spaces (below
\* and above each shield), max_w = area_w - 4*space - 2*shield_w; a net without
\* shield has max_w = area_w - 2*space.  The call raises when max_w <= 0 and
\* otherwise returns the children {name}_c{i}, whose widths sum to net.width, are
\* each <= max_w, and are as few as that bound allows.
C14_TrunkDivision ==
    Called("trunk_division") =>
        divides_under(call.routing_area_width - 2 * call.net.us
                      - (IF call.net.st # "" THEN 2 * call.net.us + 2 * call.shield_width
                         ELSE 0))

\* a shielded net has been cut into three children, the last one smaller
C14_Witness ==
    /\ Called("trunk_division")
    /\ call.net.st = "S"
    /\ call.ret.ok
    /\ Len(call.ret.nl) = 3
    /\ call.ret.nl[3].w < call.ret.nl[1].w

(***************************************************************************)
(* Properties of OverlappedIntervalDict.                                   *)
(***************************************************************************)
\* the nets filed under entry k of the OID
entry_nets(oid, k) == {e \in Range(oid.data[k].total_netlist) : e.kind = "Net"}

\* the entries that hold net n
entries_of(oid, n) == {k \in DOMAIN oid.data : n \in entry_nets(oid, k)}

keys_apart(oid) ==
    /\ \A j, k \in DOMAIN oid.data :
          j # k => ~(oid.data[j].xb < oid.data[k].xe /\ oid.data[k].xb < oid.data[j].xe)
    /\ \A k \in 1..(Len(oid.data) - 1) : oid.data[k].xb < oid.data[k + 1].xb

filed_once(oid, n) ==
    /\ Cardinality(entries_of(oid, n)) = 1
    /\ \A k \in entries_of(oid, n) : oid.data[k].xb <= n.xb /\ n.xe <= oid.data[k].xe

overlapping_together(oid, nl) ==
    \A i, j \in DOMAIN nl :
        (nl[i].xb < nl[j].xe /\ nl[j].xb < nl[i].xe)
            => entries_of(oid, nl[i]) = entries_of(oid, nl[j])

\* C20: the keys of an OID are pairwise non-overlapping x-intervals in ascending
\* order of begin; every input net is in exactly one entry, whose key contains
\* the net's x-interval; two input nets whose x-intervals overlap are in the
\* same entry.
C20_OidPartition ==
    Called("OverlappedIntervalDict") =>
        /\ keys_apart(call.ret)
        /\ \A i \in DOMAIN call.netlist : filed_once(call.ret, call.netlist[i])
        /\ overlapping_together(call.ret, call.netlist)

\* two entries, one of them merged from two nets neither of which spans its key
C20_Witness ==
    /\ Called("OverlappedIntervalDict")
    /\ Len(call.ret.data) = 2
    /\ \E k \in DOMAIN call.ret.data :
          /\ Cardinality(entry_nets(call.ret, k)) = 2
          /\ \A n \in entry_nets(call.ret, k) :
                n.xe - n.xb < call.ret.data[k].xe - call.ret.data[k].xb

(***************************************************************************)
(* Properties of the RoutingArea.                                          *)
(***************************************************************************)
\* the stored allocations that overlap [xb, xe) in x
over_x(ra, xb, xe) == {a \in Range(ra.x_iv_tree) : a.data.xb < xe /\ xb < a.data.xe}

\* those of them that lie below the ceiling
below(ra, alc, ceiling) == {a \in over_x(ra, alc.xb, alc.xe) : y_max(a) <= ceiling}

\* the greatest of a non-empty set of numbers, and the least
greatest(S) == CHOOSE m \in S : \A n \in S : n <= m

least_of(S) == CHOOSE m \in S : \A n \in S : m <= n

\* y_max - space_min + max(space_min, item.lower_space) over the allocations B
stated_offset(B, alc) ==
    IF B = {} THEN Max(0, alc.ls)
    ELSE LET ym == greatest({y_max_with_space(a) : a \in B})
             sm == least_of({a.data.us : a \in {b \in B : y_max_with_space(b) = ym}})
         IN  ym - sm + Max(sm, alc.ls)

stated_get_offset(ra, alc, ceiling, ceiling_space, offset) ==
    IF ceiling_space = None \/ offset + alc.w + Max(alc.us, ceiling_space) > ceiling
    THEN None
    ELSE offset

the_ceiling(ra, c) == IF c = None THEN ra.width ELSE c

\* the two cases the claim singles out, under the ceiling of the area itself
into_empty(ra, alc, ret) == (ra.x_iv_tree = <<>>) => ret = alc.ls

onto_one(ra, alc, ret) ==
    \A a \in over_x(ra, alc.xb, alc.xe) :
        (over_x(ra, alc.xb, alc.xe) = {a} /\ ret # None)
            => ret = y_max(a) + Max(a.data.us, alc.ls)

\* C15: get_offset returns y_max - space_min + max(space_min, item.lower_space),
\* y_max being the greatest y_max_with_space of the allocations that overlap the
\* item in x and lie below the ceiling and space_min the least upper_space of
\* those that attain it ((0, 0) when there are none), and returns None exactly
\* when the ceiling is invalid or offset + width + max(upper_space,
\* ceiling_space) exceeds the ceiling; into an empty area the offset is the
\* item's lower_space, onto a single net it is that net's y_max + max(its
\* upper_space, the item's lower_space).
C15_GetOffset ==
    Called("get_offset") =>
        /\ call.ret = stated_get_offset(
               area, call.alc, the_ceiling(area, call.ceiling),
               get_ceiling_space(area, the_ceiling(area, call.ceiling),
                                 call.alc.xb, call.alc.xe),
               stated_offset(below(area, call.alc, the_ceiling(area, call.ceiling)),
                             call.alc))
        /\ call.ceiling = None =>
              into_empty(area, call.alc, call.ret) /\ onto_one(area, call.alc, call.ret)

\* an offset has been found above two allocations that reach the same height
\* with different upper spaces
C15_Witness ==
    /\ Called("get_offset")
    /\ call.ret # None
    /\ \E a, b \in below(area, call.alc, the_ceiling(area, call.ceiling)) :
          /\ y_max_with_space(a) = y_max_with_space(b)
          /\ a.data.us < b.data.us
          /\ y_max_with_space(a) =
                 greatest({y_max_with_space(c) :
                              c \in below(area, call.alc, the_ceiling(area, call.ceiling))})

in_upper_margin(a, c) == y_max(a) <= c /\ c < y_max(a) + a.data.us

strictly_inside(a, c) == a.offset < c /\ c < y_max(a)

in_lower_margin(a, c) == a.offset - a.data.ls <= c /\ c < a.offset

\* ceiling - begin over the y-intervals and the lower margins that hold the ceiling
depths(X, c) ==
    {c - a.offset : a \in {b \in X : b.offset <= c /\ c < y_max(b)}}
    \cup {c - (a.offset - a.data.ls) : a \in {b \in X : in_lower_margin(b, c)}}

stated_ceiling_space(X, c) ==
    IF \E a \in X : in_upper_margin(a, c) \/ strictly_inside(a, c) THEN None
    ELSE IF depths(X, c) = {} THEN 0
         ELSE greatest(depths(X, c))

\* C16: get_ceiling_space(ceiling, x_iv) returns None iff, among the allocations
\* that overlap x_iv in x, the ceiling lies in the upper margin [y_max, y_max +
\* upper_space) of one or strictly inside the y-interval of one; otherwise it
\* returns the greatest ceiling - begin over the y-intervals and the lower
\* margins [offset - lower_space, offset) that contain the ceiling, 0 if none does.
C16_CeilingSpace ==
    Called("get_ceiling_space") =>
        call.ret = stated_ceiling_space(over_x(area, call.xb, call.xe), call.ceiling)

\* a ceiling in the lower margin of an allocation has been given its depth
C16_Witness ==
    /\ Called("get_ceiling_space")
    /\ call.ret > 0
    /\ \E a \in over_x(area, call.xb, call.xe) : in_lower_margin(a, call.ceiling)

\* an allocation of before overlaps the rectangle of b
rectangle_taken(before, b) ==
    \E a \in over_x(before, b.xb, b.xe) : a.offset < b.y_max /\ b.y_min < y_max(a)

blockage_call == Called("allocate") /\ call.kind = "Blockage"

\* C17: allocate of a Blockage b succeeds iff no allocation that overlaps b in x
\* has a y-interval that overlaps b's y-range; on success b is stored at offset
\* b.y_min and b.y_min, b.y_max are appended to init_ceilings; otherwise the
\* call fails.
C17_Blockage ==
    blockage_call =>
        /\ call.ok <=> ~rectangle_taken(call.before, call.o)
        /\ call.ok =>
              /\ area.x_iv_tree = Append(call.before.x_iv_tree, Allocation(call.o, call.o.y_min))
              /\ area.init_ceilings =
                     call.before.init_ceilings \o <<call.o.y_min, call.o.y_max>>

\* a blockage has been stored above a net, inside the space the net keeps free
C17_Witness ==
    /\ blockage_call
    /\ call.ok
    /\ \E a \in over_x(call.before, call.o.xb, call.o.xe) :
          a.data.kind = "Net" /\ y_max(a) <= call.o.y_min /\ call.o.y_min < y_max_with_space(a)

\* the allocations the call has added, in the order it added them
added == SubSeq(area.x_iv_tree, Len(call.before.x_iv_tree) + 1, Len(area.x_iv_tree))

\* the ShieldedNetLists of an OID in the order allocate visits them
visited(oid) == Flatten([k \in DOMAIN oid.data |-> oid.data[k].snls])

\* the number of allocations a ShieldedNetList adds: one if it goes in as a unit
adds(snl) == IF snl.is_group_net THEN 1 ELSE Len(snl.data)

\* the allocations added for the j-th ShieldedNetList visited
added_for(snls, j) ==
    SubSeq(added, SeqSum([i \in 1..(j - 1) |-> adds(snls[i])]) + 1,
                  SeqSum([i \in 1..j |-> adds(snls[i])]))

\* each element is above the element placed before it, the last one is highest
stacks(p) ==
    /\ \A i \in 2..Len(p) : y_min(p[i]) >= y_max(p[i - 1])
    /\ \A i \in DOMAIN p : y_max_with_space(p[i]) <= y_max_with_space(Last(p))

list_call == Called("allocate") /\ call.kind = "list" /\ call.ok

oid_call == Called("allocate") /\ call.kind = "OverlappedIntervalDict" /\ call.ok

\* C18: when allocate places a list or a ShieldedNetList that is not
\* group-shielded, alone or inside an OID, every element is placed above the
\* element placed before it (y_min >= the previous y_max), so that the
\* y_max_with_space of the last element, which is returned, is the highest the
\* call has created.
C18_Stacks ==
    /\ list_call => stacks(added) /\ call.ret = y_max_with_space(Last(added))
    /\ oid_call =>
          \A j \in DOMAIN visited(call.o) :
              ~visited(call.o)[j].is_group_net => stacks(added_for(visited(call.o), j))

\* for lists and stacks whose elements all overlap one another in x the property holds
C18_StacksOverlapping ==
    /\ (list_call /\ \A e, f \in Range(call.o.data) : e.xb < f.xe /\ f.xb < e.xe)
           => stacks(added) /\ call.ret = y_max_with_space(Last(added))
    /\ oid_call =>
          \A j \in DOMAIN visited(call.o) :
              (/\ ~visited(call.o)[j].is_group_net
               /\ \A e, f \in Range(visited(call.o)[j].data) : e.xb < f.xe /\ f.xb < e.xe)
                  => stacks(added_for(visited(call.o), j))

\* what allocations returns for one stored allocation
expanded_len(a) == IF a.data.kind = "ShieldedNetList" THEN Len(a.data.elems) ELSE 1

\* the part of the returned list that comes from the i-th stored allocation
expansion_of(i) ==
    LET before == SeqSum([j \in 1..(i - 1) |-> expanded_len(area.x_iv_tree[j])])
    IN  SubSeq(call.ret, before + 1, before + expanded_len(area.x_iv_tree[i]))

\* C19: allocations expands a group-shielded ShieldedNetList stored as one
\* allocation at offset o into one allocation per element, bottom-up: the
\* first element at o, every next element at the previous element's y_max +
\* max(previous.upper_space, next.lower_space); the top element's y_max is
\* o + the total width of the stack, which is the y_max of the stored unit.
\* Every other stored allocation is returned as it is.
C19_Expansion ==
    Called("allocations") =>
        /\ Len(call.ret) = SeqSum([j \in DOMAIN area.x_iv_tree |->
                                      expanded_len(area.x_iv_tree[j])])
        /\ \A i \in DOMAIN area.x_iv_tree :
              LET a == area.x_iv_tree[i]
                  p == expansion_of(i)
              IN  IF a.data.kind = "ShieldedNetList"
                  THEN /\ [k \in DOMAIN p |-> p[k].data] = a.data.elems
                       /\ p[1].offset = a.offset
                       /\ \A k \in 2..Len(p) :
                              p[k].offset = y_max(p[k - 1])
                                            + Max(p[k - 1].data.us, p[k].data.ls)
                       /\ y_max(Last(p)) = a.offset + total_width(a.data.elems)
                       /\ y_max(Last(p)) = y_max(a)
                  ELSE p = <<a>>

\* allocations has expanded a unit whose neighbours ask for different spaces,
\* stored above another allocation
C19_Witness ==
    /\ Called("allocations")
    /\ \E i \in DOMAIN area.x_iv_tree :
          LET a == area.x_iv_tree[i]
          IN  /\ a.data.kind = "ShieldedNetList"
              /\ a.offset > a.data.ls
              /\ Len(call.ret) > Len(a.data.elems)
              /\ \E k \in 1..(Len(a.data.elems) - 1) :
                     a.data.elems[k].us # a.data.elems[k + 1].ls

(***************************************************************************)
(* Properties of the channel algorithms, step by step.                     *)
(***************************************************************************)
occurrences(s, v) == Cardinality({i \in DOMAIN s : s[i] = v})

\* q2 holds what q1 holds and the elements of pushed, nothing else
holds_also(q1, pushed, q2) ==
    \A v \in Range(q1) \cup Range(pushed) \cup Range(q2) :
        occurrences(q2, v) = occurrences(q1, v) + occurrences(pushed, v)

\* what target_ra.allocate returns, placement by placement, in one turn of
\* left_edge's for loop
RECURSIVE le_returned(_, _, _, _, _)
le_returned(os, i, height_limit, ra, x) ==
    IF i > Len(os) THEN <<>>
    ELSE IF x < os[i].xb /\ allocatable(ra, os[i], height_limit)
    THEN LET r == allocate_overlappedintervaldict(ra, os[i], height_limit)
         IN  IF ~r.ok THEN <<>>
             ELSE <<r.ret>> \o le_returned(os, i + 1, height_limit, r.ra, os[i].xe)
    ELSE le_returned(os, i + 1, height_limit, ra, x)

\* a turn of left_edge's inner while that has placed something
le_placing_sweep ==
    /\ pc = "channel" /\ run.pc = "pass" /\ run.alg = "le"
    /\ run'.pc = "pass" /\ run'.remaining_oids # run.remaining_oids

\* a turn of the inner while of cap / ccap that has placed something ends
cap_placing_sweep ==
    /\ pc = "channel" /\ run.pc = "scan" /\ run'.pc = "pass" /\ run.oid_is_routed

\* the sweep's placements are those allocate has just returned from
cap_pushes == cap_placing_sweep => holds_also(run.queue, run.new_ceiling_heights, run'.queue)

le_pushes ==
    le_placing_sweep =>
        holds_also(run.queue,
                   le_returned(run.remaining_oids, 1, current_limit(run),
                               run.ras[run.target], MinusInf),
                   run'.queue)

\* C21: in left_edge, cap and ccap, after every sweep that placed at least one
\* OID each y_max_with_space returned by a placement of the sweep is on the
\* ceiling heap before the next sweep
C21_CandidatesPushed == [][cap_pushes /\ le_pushes]_vars

\* the same for cap and ccap alone
C21_CapCandidatesPushed == [][cap_pushes]_vars

\* left_edge leaves the heap as it was after a sweep that placed something
C21_LeftEdgeHeapKept == [][le_placing_sweep => run'.queue = run.queue]_vars

\* the ceiling a sweep runs under: height_limit, None standing for the width
\* of the target area
ceiling_value(st, height_limit) ==
    IF height_limit = None THEN st.ras[st.target].width ELSE height_limit

\* the ceiling of the sweep that would start now
next_ceiling(st) == ceiling_value(st, current_limit(st))

\* a sweep of any of the three algorithms starts in the area already targeted
sweep_starts == pc = "channel" /\ run.pc = "pass"

\* the sweep takes the minimum of the heap, or None when the heap is empty
takes_minimum ==
    (sweep_starts /\ run'.pc # "raised") =>
        /\ run.queue = <<>> => run'.height_limit = None
        /\ run.queue # <<>> =>
              /\ run'.height_limit \in Range(run.queue)
              /\ \A c \in Range(run.queue) : run'.height_limit <= c

\* a sweep of cap / ccap that has placed nothing ends under a ceiling of the heap
cap_empty_sweep ==
    /\ pc = "channel" /\ run.pc = "scan" /\ run'.pc = "pass" /\ ~run.oid_is_routed

\* a sweep of left_edge that has placed nothing under a ceiling of the heap
le_empty_sweep ==
    /\ pc = "channel" /\ run.pc = "pass" /\ run.alg = "le" /\ run'.pc = "pass"
    /\ run'.remaining_oids = run.remaining_oids

tightens ==
    /\ cap_placing_sweep =>
          /\ \A h \in Range(run.new_ceiling_heights) :
                 h <= ceiling_value(run, run.height_limit)
          /\ next_ceiling(run') <= ceiling_value(run, run.height_limit)
    /\ le_placing_sweep => next_ceiling(run') <= next_ceiling(run)

relaxes_by_one_pop ==
    /\ cap_empty_sweep =>
          /\ run'.queue = Tail(run.queue)
          /\ next_ceiling(run') >= ceiling_value(run, run.height_limit)
    /\ le_empty_sweep =>
          /\ run'.queue = Tail(run.queue)
          /\ next_ceiling(run') >= next_ceiling(run)

\* C22: within one routing area the ceiling of a sweep is the minimum of the
\* heap, or the area's width when the heap is empty; every candidate pushed
\* after a sweep is at most the ceiling of that sweep, so that the ceiling
\* does not rise after a sweep that placed something, and after a sweep that
\* placed nothing it rises by exactly one pop of the heap.
C22_Ceiling == [][takes_minimum /\ tightens /\ relaxes_by_one_pop]_vars

\* a sweep of cap / ccap has placed something and the next ceiling is lower
\* than the one it ran under
C22_Witness ==
    /\ pc = "channel" /\ run.pc = "pass" /\ run.alg # "le" /\ run.oid_is_routed
    /\ run.new_ceiling_heights # <<>>
    /\ next_ceiling(run) < ceiling_value(run, run.height_limit)

\* a sweep has placed nothing and the ceiling has gone up by one pop
C22_Relaxed ==
    /\ pc = "channel" /\ run.pc = "pass" /\ run.alg # "le" /\ ~run.oid_is_routed
    /\ run.height_limit # None /\ next_ceiling(run) > run.height_limit

\* an OID of cap / ccap is allocated: remaining_oids loses it
placing_step ==
    /\ pc = "channel" /\ run.pc = "scan" /\ run'.pc = "scan"
    /\ Len(run'.remaining_oids) < Len(run.remaining_oids)

\* the OID a placing step has taken out of remaining_oids
placed_oid ==
    run.remaining_oids[CHOOSE i \in DOMAIN run.remaining_oids :
                           run'.remaining_oids = remove_at(run.remaining_oids, i)]

no_zone_between(x, zones, x_begin) ==
    ~\E k \in DOMAIN zones : x < zones[k][1] /\ zones[k][1] < x_begin

\* the cursor and the zones of a sweep: the cursor starts at minus infinity and
\* the zones are those of the OIDs remaining then; both change at placements only
sweep_begins ==
    (pc = "channel" /\ run.pc = "pass" /\ run.alg # "le" /\ run'.pc = "scan") =>
        /\ run'.x = MinusInf
        /\ run'.zones = max_density_zones(run.remaining_oids).zones

placed_if_desired ==
    placing_step =>
        /\ run.x < placed_oid.xb
        /\ no_zone_between(run.x, run.zones, placed_oid.xb)
        /\ run'.x = placed_oid.xe
        /\ run'.zones = run.zones

\* every placement of cap / ccap is one of an OID to the right of the cursor
\* that skips no zone
C23_DesiredOnly == [][sweep_begins /\ placed_if_desired]_vars

\* the allocation a was made for the OID o
made_for(a, o) ==
    \E k \in DOMAIN o.data : \E j \in DOMAIN o.data[k].snls :
        \/ a.data = snl_unit(o.data[k].snls[j])
        \/ \E e \in DOMAIN o.data[k].snls[j].data : a.data = o.data[k].snls[j].data[e]

\* where in the target area the first allocation of o is, 0 if there is none
first_made(st, o) ==
    LET t == st.ras[st.target].x_iv_tree
        at == {i \in DOMAIN t : made_for(t[i], o)}
    IN  IF at = {} THEN 0 ELSE CHOOSE i \in at : \A j \in at : i <= j

\* the OIDs the sweep in progress has placed: the last ones to enter the
\* target area, as many as there are new ceiling heights
placed_in_sweep(st) ==
    LET here == {n \in DOMAIN oids : first_made(st, oids[n]) > 0}
    IN  {n \in here :
            Cardinality({m \in here : first_made(st, oids[m]) > first_made(st, oids[n])})
                < Len(st.new_ceiling_heights)}

\* the OIDs placed in one sweep of cap or ccap are pairwise disjoint in x and
\* were placed from left to right
C23_LeftToRight ==
    (pc = "channel" /\ run.alg # "le" /\ run.pc = "scan") =>
        /\ Cardinality(placed_in_sweep(run)) = Len(run.new_ceiling_heights)
        /\ \A n, m \in placed_in_sweep(run) :
              first_made(run, oids[n]) < first_made(run, oids[m])
                  => oids[n].xe < oids[m].xb

\* C23: in a sweep of cap or ccap an OID is placed only if its x_begin is
\* strictly greater than the cursor (minus infinity at the start of the sweep,
\* then the x_end of the OID placed last) and no max-density zone of the OIDs
\* remaining at the start of the sweep begins strictly between the cursor and
\* that x_begin; the OIDs placed in one sweep are therefore pairwise disjoint
\* in x and placed from left to right.
C23_Sweep == C23_DesiredOnly /\ []C23_LeftToRight

\* a sweep of cap / ccap has placed two OIDs
C23_Witness ==
    /\ pc = "channel" /\ run.alg # "le" /\ run.pc = "scan"
    /\ Len(run.new_ceiling_heights) >= 2
    /\ Cardinality(placed_in_sweep(run)) >= 2

\* an OID that fits to the right of the cursor is passed over because a zone
\* of maximum density begins before it
C23_PassedOver ==
    /\ pc = "channel" /\ run.alg # "le" /\ run.pc = "scan"
    /\ \E i \in DOMAIN run.remaining_oids :
          /\ run.x < run.remaining_oids[i].xb
          /\ allocatable(run.ras[run.target], run.remaining_oids[i], run.height_limit)
          /\ ~is_desired_net(run.x, run.zones, run.remaining_oids[i])

(***************************************************************************)
(* Properties of preprocessing.grouping and preprocessing.run.             *)
(***************************************************************************)
\* the nets of the groups, one after the other
grouped(groups) == Flatten(groups)

\* c is a child "{name}_c{i}" of the net n
child_of(c, n) ==
    /\ Len(c.name) = Len(n.name) + 1
    /\ SubSeq(c.name, 1, Len(n.name)) = n.name

\* the children of n are there once each, numbered from 0, and make up its width
split_once(n, nets) ==
    LET cs == SelectSeq(nets, LAMBDA c : child_of(c, n))
    IN  /\ \A i \in DOMAIN cs : cs[i].name = Append(n.name, i - 1)
        /\ SeqSum([i \in DOMAIN cs |-> cs[i].w]) = n.w

conserved(netlist, nets) ==
    /\ \A k \in DOMAIN netlist :
          IF \E i \in DOMAIN nets : child_of(nets[i], netlist[k])
          THEN split_once(netlist[k], nets) /\ occurrences(nets, netlist[k]) = 0
          ELSE occurrences(nets, netlist[k]) = 1
    /\ \A i \in DOMAIN nets :
          \E k \in DOMAIN netlist : nets[i] = netlist[k] \/ child_of(nets[i], netlist[k])

\* C24: grouping conserves its input: in the groups returned every input net
\* appears exactly once, except a net that was width-split, whose children
\* {name}_c{i} appear exactly once each while the net itself appears in no group.
C24_Conserved ==
    (Called("grouping") /\ call.ret.ok) => conserved(call.netlist, grouped(call.ret.groups))

\* the same for the inputs in which no net is split
C24_ConservedUnsplit ==
    (/\ Called("grouping") /\ call.ret.ok
     /\ \A k \in DOMAIN call.netlist :
            allocatable(call.routing_area,
                        generate_overlapped_interval_dict(<<call.netlist[k]>>,
                                                          call.shield_width), None))
        => conserved(call.netlist, grouped(call.ret.groups))

\* the OID fits an empty area like the one the call was given
fits_alone(oid) == allocatable(RoutingArea(None, call.routing_area.width, None), oid, None)

groups_fit ==
    (Called("grouping") /\ call.ret.ok) =>
        \A g \in DOMAIN call.ret.groups :
            fits_alone(generate_overlapped_interval_dict(call.ret.groups[g], call.shield_width))

components_fit ==
    (Called("run") /\ call.ret.ok) =>
        \A b \in DOMAIN call.ret.bundles :
            \A c \in DOMAIN call.ret.bundles[b].data : fits_alone(call.ret.bundles[b].data[c])

\* C26: every group grouping returns, and so every component OID of every
\* Bundle preprocessing.run builds, is allocatable by itself in an empty routing
\* area of the reference width.
C26_ComponentsFit == groups_fit /\ components_fit

\* the same for the OIDs preprocessing.run returns for the channel phase
C26_OidsFit ==
    (Called("run") /\ call.ret.ok) =>
        \A k \in DOMAIN call.ret.oids : fits_alone(call.ret.oids[k])

(***************************************************************************)
(* Properties of RoutingArea.allocate as the algorithms use it.            *)
(***************************************************************************)
\* a step of left_edge, cap or ccap that allocates: every OID it allocates has
\* just been found allocatable under the same ceiling
channel_allocates == pc = "channel" /\ run.pc \in {"pass", "scan"}

\* a turn of the loop of greedy_allocate_bundles: the components it allocates
\* have been found allocatable in their areas
bundle_allocates == pc = "bundles" /\ bundle_idx' = bundle_idx + 1

\* C25: whenever area.allocatable(oid, ceiling) is true, the allocate(oid,
\* ceiling) that follows places every net and shield of the OID and does not
\* raise, so that neither a channel algorithm nor the bundle scheduler is
\* ended with an OID partly placed.
C25_NoAbort ==
    [][(channel_allocates => run'.pc # "raised") /\ (bundle_allocates => pc' # "raised")]_vars

(***************************************************************************)
(* Properties of the areas after greedy_allocate_bundles.                  *)
(***************************************************************************)
component_names(b, j) == net_names(oid_total_netlist(b.data[j]))

\* no net of any component of b is allocated in any area
none_in(rs, b) ==
    \A j \in DOMAIN b.data : \A nm \in component_names(b, j) : places(rs, nm) = {}

\* every net of component j of b is allocated, and only in area i + j - 1
whole_at(rs, b, i) ==
    /\ i + Len(b.data) - 1 <= Len(rs)
    /\ \A j \in DOMAIN b.data : \A nm \in component_names(b, j) :
           /\ places(rs, nm) # {}
           /\ \A p \in places(rs, nm) : p[1] = i + j - 1

all_or_nothing(rs, b) == none_in(rs, b) \/ \E i \in DOMAIN rs : whole_at(rs, b, i)

ceilings_of(rs) == [r \in DOMAIN rs |-> rs[r].init_ceilings]

\* a turn that leaves its bundle out adds no ceiling to any area
nothing_recorded ==
    BundleTurn =>
        \A k \in pending :
            (taken(k) /\ none_in(ras', bundles[k])) => ceilings_of(ras') = ceilings_of(ras)

\* C27: while greedy_allocate_bundles runs and when it has returned, every
\* bundle is either whole in one window of consecutive areas, its i-th
\* component in the i-th area of the window, or in no area at all; the turn of
\* a bundle that is left out adds no init_ceilings entry.
C27_AllOrNothing ==
    /\ [][nothing_recorded]_vars
    /\ [](pc = "bundles" => \A k \in DOMAIN bundles : all_or_nothing(ras, bundles[k]))

\* C27 witness: greedy_allocate_bundles has returned with a bundle of two
\* components whole in a window and another bundle in no area
C27_Witness ==
    /\ pc = "bundles" /\ bundle_idx > Len(bundles)
    /\ \E k \in DOMAIN bundles : /\ Len(bundles[k].data) >= 2
                                 /\ \E i \in DOMAIN ras : whole_at(ras, bundles[k], i)
    /\ \E k \in DOMAIN bundles : /\ reported(unallocatable_net_group_names, bundles[k])
                                 /\ none_in(ras, bundles[k])

(***************************************************************************)
(* Termination of left_edge, cap and ccap.  The program is sequential: it  *)
(* takes a step whenever it has one, which is weak fairness of Next.  A    *)
(* state without a step is Halted, so that WF_vars(Next) is the formula    *)
(* Proceeds, in which no step has to be looked for.                        *)
(***************************************************************************)
\* The runs checked for termination start with at most MaxLiveGroups groups.
MaxLiveGroups == 2

LiveInit == Init /\ Len(netlist_dict) <= MaxLiveGroups

Halted == pc \in {"finished", "raised"}

Proceeds == []<>Halted \/ []<><<Next>>_vars

LiveSpec == LiveInit /\ [][Next]_vars /\ Proceeds

in_channel == pc = "channel" /\ run.pc \in {"outer", "pass", "scan"}

fewer_oids == Len(run'.remaining_oids) < Len(run.remaining_oids)

one_popped == Len(run'.queue) = Len(run.queue) - 1

leaves_area == run'.pc \in {"outer", "raised"}

\* a turn of left_edge's inner loop
le_turn == pc = "channel" /\ run.pc = "pass" /\ run.alg = "le"

le_progress == le_turn => fewer_oids \/ one_popped \/ leaves_area

\* cap / ccap: the for loop allocates an OID, which is one OID less to place
cap_places == pc = "channel" /\ run.pc = "scan" /\ run'.pc = "scan"

place_progress ==
    cap_places => /\ Len(run'.remaining_oids) = Len(run.remaining_oids) - 1
                  /\ run'.oid_is_routed

\* cap / ccap: a turn of the inner loop ends
cap_turn_ends == pc = "channel" /\ run.pc = "scan" /\ run'.pc # "scan"

cap_progress == cap_turn_ends => run.oid_is_routed \/ one_popped \/ leaves_area

\* a turn of the outer loop takes one area out of remaining_ras
outer_turn == pc = "channel" /\ run.pc = "outer" /\ run'.pc = "pass"

outer_progress ==
    outer_turn => /\ Len(run'.remaining_ras) = Len(run.remaining_ras) - 1
                  /\ Len(run'.routed_ras) = Len(run.routed_ras) + 1

\* what is left to do: areas, then OIDs, then ceilings, then the rest of the turn
measure(st) ==
    << 2 * Len(st.remaining_ras) + (IF st.pc \in {"pass", "scan"} THEN 1 ELSE 0),
       2 * Len(st.remaining_oids) + (IF st.pc = "scan" /\ st.oid_is_routed THEN 1 ELSE 0),
       Len(st.queue),
       IF st.pc \in {"outer", "pass"} THEN 1 ELSE 0 >>

RECURSIVE lex_less(_, _)
lex_less(a, b) ==
    /\ a # <<>>
    /\ \/ Head(a) < Head(b)
       \/ Head(a) = Head(b) /\ lex_less(Tail(a), Tail(b))

\* every step of the algorithm lessens what is left to do
less_to_do == in_channel => lex_less(measure(run'), measure(run))

\* oid_is_routed says that the turn in progress has allocated an OID
routed_flag ==
    (pc = "channel" /\ run.pc = "scan") =>
        (run.oid_is_routed <=> run.new_ceiling_heights # <<>>)

\* C28: every turn of the inner loop of left_edge, cap and ccap places an OID,
\* pops one entry of the ceiling heap or leaves the area, every turn of the
\* outer loop consumes one routing area, and the algorithm, once started,
\* returns or raises.
C28_Terminates ==
    /\ [][le_progress /\ place_progress /\ cap_progress /\ outer_progress /\ less_to_do]_vars
    /\ []routed_flag
    /\ (in_channel ~> ~in_channel)

\* C28 witness: cap or ccap has returned after two areas, one of which had
\* ceilings to pop, with OIDs placed and an OID left over
C28_Witness ==
    /\ pc = "channel" /\ run.pc = "done" /\ run.alg # "le"
    /\ Len(run.routed_ras) >= 2
    /\ run.remaining_oids # <<>>
    /\ Len(run.remaining_oids) < Len(oids)
    /\ \E n \in DOMAIN run.routed_ras : run.ras[run.routed_ras[n]].init_ceilings # <<>>

\* the same for left_edge
C28_LeftEdgeReturned ==
    /\ pc = "channel" /\ run.pc = "done" /\ run.alg = "le"
    /\ Len(run.routed_ras) >= 2
    /\ run.remaining_oids # <<>>
    /\ Len(run.remaining_oids) < Len(oids)
    /\ \E n \in DOMAIN run.routed_ras : run.ras[run.routed_ras[n]].init_ceilings # <<>>

(***************************************************************************)
(* Properties of the ceiling heap of left_edge, cap and ccap.              *)
(***************************************************************************)
\* the heights that stem from area ra: its init_ceilings and the tops, with
\* space, of what is allocated in it
heights_of(ra) ==
    Range(ra.init_ceilings)
        \cup {y_max_with_space(allocations(ra)[i]) : i \in DOMAIN allocations(ra)}

\* the outer loop is about to take the next area, or to return
at_selection == pc = "channel" /\ run.pc = "outer"

heap_empty_at_selection == at_selection => run.queue = <<>>

\* inside an area the heap, and the ceiling in use, hold heights of that area
heap_of_target ==
    (pc = "channel" /\ run.pc \in {"pass", "scan"}) =>
        /\ Range(run.queue) \subseteq heights_of(run.ras[run.target])
        /\ (run.pc = "scan" /\ run.height_limit # None) =>
               run.height_limit \in heights_of(run.ras[run.target])

\* C29: the ceiling heap of left_edge, cap and ccap is empty whenever the outer
\* loop selects the next routing area, and inside an area the heap and the
\* ceiling in use hold only heights that stem from that area.
C29_HeapPerArea == heap_empty_at_selection /\ heap_of_target

\* C29 witness: cap or ccap has left an area that had ceilings of its own and
\* in which it has placed OIDs, and is about to select another area
C29_Witness ==
    /\ at_selection /\ run.alg # "le"
    /\ run.routed_ras # <<>> /\ run.remaining_ras # <<>> /\ run.remaining_oids # <<>>
    /\ Len(run.remaining_oids) < Len(oids)
    /\ run.ras[run.target].init_ceilings # <<>>
    /\ run.queue = <<>>

\* the same for left_edge
C29_LeftEdgeLeft ==
    /\ at_selection /\ run.alg = "le"
    /\ run.routed_ras # <<>> /\ run.remaining_ras # <<>> /\ run.remaining_oids # <<>>
    /\ Len(run.remaining_oids) < Len(oids)
    /\ run.ras[run.target].init_ceilings # <<>>
    /\ run.queue = <<>>

(***************************************************************************)
(* Properties of a refused allocate of a Blockage.                         *)
(***************************************************************************)
blockage_refused == blockage_call /\ ~call.ok

\* C30: an allocate of a Blockage that fails because of a collision leaves the
\* routing area as it was: the same allocations and the same init_ceilings.
C30_RefusedUnchanged ==
    blockage_refused =>
        /\ allocations(area) = allocations(call.before)
        /\ area.init_ceilings = call.before.init_ceilings

\* the allocations alone are as they were
C30_RefusedAllocationsKept ==
    blockage_refused => area.x_iv_tree = call.before.x_iv_tree

\* a refused Blockage has left its two heights in init_ceilings
C30_CeilingsLeft ==
    /\ blockage_refused
    /\ area.init_ceilings = call.before.init_ceilings \o <<call.o.y_min, call.o.y_max>>

====
